---- MODULE Spec2Model ----
(***************************************************************************)
(* A model of the risk gate (core/risk/circuit_breaker.rs), the optimistic *)
(* nonce counter (clob/nonce_manager.rs), the batch response predicates    *)
(* (types/order.rs), the paired executor (clob/executor.rs), the order     *)
(* signing path of the client (clob/client.rs), the loop of the binary     *)
(* arbitrage bot (bin/binary_arbitrage_bot.rs) and the WebSocket ingestor  *)
(* (services/websocket) with the task that drains its channel, and the     *)
(* redemption tracker (core/redemption.rs), and the single-book and batch  *)
(* arbitrage detectors (core/arbitrage).                                   *)
(*                                                                         *)
(* Representation of the Rust values:                                      *)
(*  - an f64 dollar amount is an integer number of micro-dollars, so that  *)
(*    "(pnl * 100.0) as i64" is a real truncation to whole cents. The      *)
(*    rounding error of the f64 product itself is not modelled;            *)
(*  - a u32 counter is held as the two's-complement (i32) reading of its   *)
(*    32 bits, the width of the integers of the model checker: -1 is the   *)
(*    bit pattern 0xFFFF_FFFF (4 294 967 295), and comparisons go through  *)
(*    UGt / UGe, which compare the unsigned readings;                      *)
(*  - the u64 daily_loss_cents is a natural number; the guards keep it far *)
(*    below 2^64, where fetch_add would wrap.                              *)
(***************************************************************************)
EXTENDS Integers, Sequences, FiniteSets, Bags, TLC

VARIABLES
    cb,             \* the CircuitBreaker: tripped, consecutive_errors, daily_loss_cents, open_positions
    elapsed,        \* last_reset.elapsed(): time since last_reset was stamped
    current_nonce,  \* NonceManager.current_nonce
    pc,             \* where the one execute() call of the bot loop is: idle, batch_wait, cancel_wait
    opp,            \* the opportunity of the execute() call in progress
    resp,           \* the batch response the current / last execute() received
    cancel_calls,   \* the cancel_order calls of the current / last execute(): hash and outcome
    partial_stuck,  \* a rollback failed and neither reset nor auto_reset has cleared the gate since (history)
    posts,          \* number of batch POSTs sent to the venue so far
    last_op,        \* name of the last operation that ran (history)
    arg,            \* its argument (history)
    ret,            \* its return value (history)
    pre,            \* the state when the last operation was called (history)
    errors_recorded, \* record_error calls since the last accepted record_trade or reset_daily (history)
    held,           \* executions that returned Success while the gate was used by execute and reset only (history)
    th,             \* per thread: the operation it is inside, its position and its locals
    calls_left,     \* per thread: how many more calls it will make
    accepted,       \* how many record_trade calls with each pnl passed the can_execute() check (history)
    opened,         \* open_positions when the threads started, and how many of their open_position calls returned Ok (history)
    wall_clock,     \* SystemTime::now() in nanoseconds, as generate_salt reads it
    issued,         \* the values next_nonce() has returned to build_signed_order, a bag (history)
    signed,         \* the (maker, nonce, salt) of the orders sign_order has signed, a bag (history)
    conflict_calls, \* how many handle_conflict calls the threads have made (history)
    nonce0,         \* the value the sequencer was initialised to (history)
    dry_run,        \* BinaryArbitrageBot.dry_run
    bot_pc,         \* where the binary arbitrage bot is: off, scan, batch_wait
    bot_opp,        \* the opportunity its execute_arbitrage call is submitting
    positions,      \* RedemptionManager.positions: market id -> redeemable position
    bot_call,       \* the last execute_arbitrage call: argument, result, state before it (history)
    ws_pc,          \* where WebSocketManager::start is: connecting, listening, send_blocked, backoff
    current_reconnect_interval, \* WebSocketManager.current_reconnect_interval, in seconds
    idle,           \* seconds since the select! of the message loop was entered (its sleep timer)
    since_pong,     \* last_ping.elapsed(), in seconds
    chan,           \* the bounded mpsc channel between the ingestor and its consumer
    pending,        \* the parsed message a blocked message_tx.send() is holding
    rx_closed,      \* the receiving half of the channel was dropped
    cache,          \* the orderbook cache of the consumer: token id -> cached book
    ws_hist,        \* what the ingestor did on this connection and since the last handshake (history)
    utc_now,        \* Utc::now()
    red_call,       \* the last call on the RedemptionManager: arguments, result, state before (history)
    added,          \* the positions added so far, while nothing but add_position was called (history)
    payouts,        \* per market, how many redeem_position calls paid out (history)
    det_call        \* the last call of a detector: its input and what each detector returned (history)

\* the variables of the bot loop and its execute() call
loop_vars ==
    <<elapsed, current_nonce, pc, opp, resp, cancel_calls, partial_stuck, posts, last_op, arg, ret, pre,
      errors_recorded, held>>

\* the variables of the threads that share the gate
thread_vars == <<th, calls_left, accepted, opened>>

\* the variables of the threads that sign orders, besides th, calls_left and current_nonce
signer_vars == <<wall_clock, issued, signed, conflict_calls, nonce0>>

\* the variables of the binary arbitrage bot, besides current_nonce and posts
bot_vars == <<dry_run, bot_pc, bot_opp, positions, bot_call>>

\* the variables of the WebSocket ingestor and of the task that drains its channel
ws_vars ==
    <<ws_pc, current_reconnect_interval, idle, since_pong, chan, pending, rx_closed, cache, ws_hist>>

\* what the loop with the paired executor leaves alone, and what the threads on the gate do
\* the clock and the history of the calls on the RedemptionManager (its map is positions)
redeem_vars == <<utc_now, red_call, added, payouts>>

\* the detectors hold only their configuration; the variable records their calls
detect_vars == <<det_call>>

outside_loop == <<thread_vars, signer_vars, bot_vars, ws_vars, redeem_vars, detect_vars>>
outside_gate_threads == <<loop_vars, signer_vars, bot_vars, ws_vars, redeem_vars, detect_vars>>

vars == <<cb, loop_vars, thread_vars, signer_vars, bot_vars, ws_vars, redeem_vars, detect_vars>>

-----------------------------------------------------------------------------
(* Bounds of the model                                                     *)

\* RiskConfig of the modelled gate (the tests use 5, 10 and 100.0)
MaxOpenPositions == 3
MaxConsecutiveErrors == 2
\* RiskConfig.max_daily_loss in micro-dollars (4 cents)
MaxDailyLoss == 40000
\* how far below zero the callers drive open_positions, how long they wait, how many nonces they take
WrapCap == 1
MaxElapsed == 1
MaxNonce == 4
\* calls each of the threads sharing the gate makes
CallsPerThread == 2
\* longest orderHashes array a venue response carries
MaxHashes == 3
\* largest value the sequencer is initialised to, and how far the wall clock runs
MaxStart == 1
MaxClock == 1
\* capacity of the modelled channel (the program's is 1000), consecutive failed connection
\* attempts, seconds per step of time, and the largest timestamp a feed message carries
ChannelCapacity == 2
MaxAttempts == 8
TickSecs == 5
MaxTimestamp == 2
\* how far the clock of the redemption tracker runs, the latest expiry of a position, and
\* how many add_position calls are followed
MaxNow == 1
MaxExpiry == 1
MaxAdds == 3
\* the longest list of books handed to the batch detectors
MaxBooks == 5

-----------------------------------------------------------------------------
(* Integer helpers                                                         *)

\* cents per dollar times micro-dollars: 1 cent = 10 000 micro-dollars ("pnl * 100.0")
MicrosPerCent == 10000

I32Max == 2147483647
I32Min == -I32Max - 1

\* AtomicU32::fetch_add(1) wraps around at 2^32
WrappingAdd1(x) == IF x = I32Max THEN I32Min ELSE x + 1

\* AtomicU32::fetch_sub(1) wraps around at 0
WrappingSub1(x) == IF x = I32Min THEN I32Max ELSE x - 1

\* unsigned comparison of two u32 bit patterns
UGt(a, b) == IF (a < 0) = (b < 0) THEN a > b ELSE a < 0
UGe(a, b) == a = b \/ UGt(a, b)

\* "as i64" of a float: truncation toward zero
TruncDiv(a, b) == IF a >= 0 THEN a \div b ELSE -((-a) \div b)

\* i64::unsigned_abs
unsigned_abs(x) == IF x < 0 THEN -x ELSE x

\* a subtraction that does not stop at zero
plain_sub(a, b) == a - b

\* u64::saturating_sub
saturating_sub(a, b) == IF b > a THEN 0 ELSE a - b

\* (pnl * 100.0) as i64
PnlToCents(pnl) == TruncDiv(pnl, MicrosPerCent)

\* the callers stop recording errors and losses beyond these
ErrCap == MaxConsecutiveErrors + 1
LossCap == (MaxDailyLoss \div MicrosPerCent) + 2

-----------------------------------------------------------------------------
(* CircuitBreaker, as functions of the gate record g                       *)

\* CircuitBreaker::new
NewBreaker ==
    [tripped |-> FALSE, consecutive_errors |-> 0, daily_loss_cents |-> 0, open_positions |-> 0]

\* a gate whose trip flag is never consulted
can_execute_always(g) == TRUE

can_execute(g) == ~g.tripped

trip(g) == [g EXCEPT !.tripped = TRUE]

reset(g) == [g EXCEPT !.tripped = FALSE]

\* a loss check that lets the loss sit exactly on the limit
DailyLossExceeded(g) == g.daily_loss_cents * MicrosPerCent > MaxDailyLoss

\* daily_loss_cents as f64 / 100.0 >= max_daily_loss
DailyLossReached(g) == g.daily_loss_cents * MicrosPerCent >= MaxDailyLoss

\* positions as usize > max_open_positions
PositionsExceeded(g) == UGt(g.open_positions, MaxOpenPositions)

\* an error check that lets the count sit exactly on the limit
ErrorsExceeded(g) == UGt(g.consecutive_errors, MaxConsecutiveErrors)

\* errors as usize >= max_consecutive_errors
ErrorsReached(g) == UGe(g.consecutive_errors, MaxConsecutiveErrors)

\* the return value of check_and_trip
LimitReached(g) == DailyLossReached(g) \/ PositionsExceeded(g) \/ ErrorsReached(g)

\* a check that never trips
check_and_trip_never(g) == g

check_and_trip(g) == IF LimitReached(g) THEN trip(g) ELSE g

\* the accumulator update of record_trade: fetch_add for a loss, load / saturating_sub / store for a profit
UpdateDailyLoss(loss, pnl) ==
    IF pnl < 0
    THEN loss + unsigned_abs(PnlToCents(pnl))
    ELSE saturating_sub(loss, unsigned_abs(PnlToCents(pnl)))

\* a record_trade that clears the error count only for a profit
record_trade_profit_clears(g, pnl) ==
    IF ~can_execute(g)
    THEN [cb |-> g, ok |-> FALSE, err |-> "Circuit breaker is tripped"]
    ELSE LET g1 == [g EXCEPT !.daily_loss_cents = UpdateDailyLoss(@, pnl)]
             g2 == IF pnl < 0 THEN g1 ELSE [g1 EXCEPT !.consecutive_errors = 0]
         IN  [cb |-> check_and_trip(g2), ok |-> TRUE, err |-> ""]

record_trade(g, pnl) ==
    IF ~can_execute(g)
    THEN [cb |-> g, ok |-> FALSE, err |-> "Circuit breaker is tripped"]
    ELSE LET g1 == [g EXCEPT !.daily_loss_cents = UpdateDailyLoss(@, pnl)]
             g2 == [g1 EXCEPT !.consecutive_errors = 0]
         IN  [cb |-> check_and_trip(g2), ok |-> TRUE, err |-> ""]

record_error(g) ==
    check_and_trip([g EXCEPT !.consecutive_errors = WrappingAdd1(@)])

\* an open_position that trips on the limit but keeps its increment
open_position_no_rollback(g) ==
    IF ~can_execute(g)
    THEN [cb |-> g, ok |-> FALSE, err |-> "Circuit breaker is tripped"]
    ELSE LET g1 == [g EXCEPT !.open_positions = WrappingAdd1(@)]
         IN  IF LimitReached(g1)
             THEN [cb |-> trip(g1), ok |-> FALSE, err |-> "Position limit would be exceeded"]
             ELSE [cb |-> g1, ok |-> TRUE, err |-> ""]

open_position(g) ==
    IF ~can_execute(g)
    THEN [cb |-> g, ok |-> FALSE, err |-> "Circuit breaker is tripped"]
    ELSE LET g1 == [g EXCEPT !.open_positions = WrappingAdd1(@)]
         IN  IF LimitReached(g1)
             THEN [cb |-> [trip(g1) EXCEPT !.open_positions = WrappingSub1(@)],
                   ok |-> FALSE, err |-> "Position limit would be exceeded"]
             ELSE [cb |-> g1, ok |-> TRUE, err |-> ""]

close_position(g) == [g EXCEPT !.open_positions = WrappingSub1(@)]

\* a daily reset that also clears the trip flag
reset_daily_clears_trip(g) ==
    [g EXCEPT !.daily_loss_cents = 0, !.consecutive_errors = 0, !.tripped = FALSE]

\* a daily reset that forgets the error count
reset_daily_keeps_errors(g) == [g EXCEPT !.daily_loss_cents = 0]

reset_daily(g) == [g EXCEPT !.daily_loss_cents = 0, !.consecutive_errors = 0]

\* last_reset.elapsed() >= reset_interval
check_daily_reset(e, reset_interval) == e >= reset_interval

\* daily_loss < max_daily_loss * 0.9
SafeToReset(g) == g.daily_loss_cents * MicrosPerCent * 10 < MaxDailyLoss * 9

\* an auto_reset that does not wait for the cooldown
AutoResets_no_cooldown(g, e, cooldown) == ~can_execute(g) /\ SafeToReset(g)

\* the return value of auto_reset
AutoResets(g, e, cooldown) == ~can_execute(g) /\ e >= cooldown /\ SafeToReset(g)

auto_reset(g, e, cooldown) == IF AutoResets(g, e, cooldown) THEN reset(g) ELSE g

-----------------------------------------------------------------------------
(* History                                                                 *)

Snapshot ==
    [cb |-> cb, elapsed |-> elapsed, nonce |-> current_nonce, posts |-> posts, stuck |-> partial_stuck]

NoResp == [kind |-> "none"]
NoOpp == [bid_price |-> 0, ask_price |-> 0, max_size |-> 0]

Note(op, a, r) ==
    /\ last_op' = op
    /\ arg' = a
    /\ ret' = r
    /\ pre' = Snapshot

\* a gate operation called by the bot loop between two execute() calls
GateCall(op, a, r, g) ==
    /\ pc = "idle"
    /\ cb' = g
    /\ Note(op, a, r)
    /\ resp' = NoResp
    /\ cancel_calls' = <<>>
    /\ partial_stuck' = (partial_stuck /\ ~(op = "reset" \/ (op = "auto_reset" /\ r.value)))
    /\ errors_recorded' = (IF op = "record_error" THEN errors_recorded + 1
                           ELSE IF op = "reset_daily" \/ (op = "record_trade" /\ r.kind = "Ok") THEN 0
                           ELSE errors_recorded)
    /\ held' = (IF op = "reset" THEN held ELSE [successes |-> 0, external |-> TRUE])
    /\ UNCHANGED <<current_nonce, pc, opp, posts>>
    /\ UNCHANGED outside_loop

Ok == [kind |-> "Ok"]
Err(e) == [kind |-> "Err", error |-> e]
Bool(b) == [kind |-> "bool", value |-> b]
Result(r) == IF r.ok THEN Ok ELSE Err(r.err)

-----------------------------------------------------------------------------
(* The public operations of the gate                                       *)

\* pnl arguments, in micro-dollars: losses and profits of whole and of fractional cents
PnlInputs == {-20000, -15000, 15000, 60000}

Cooldowns == {0, MaxElapsed}

CanExecute ==
    /\ GateCall("can_execute", 0, Bool(can_execute(cb)), cb)
    /\ UNCHANGED elapsed

Trip ==
    /\ GateCall("trip", 0, Ok, trip(cb))
    /\ UNCHANGED elapsed

Reset ==
    /\ GateCall("reset", 0, Ok, reset(cb))
    /\ UNCHANGED elapsed

RecordTrade(pnl) ==
    /\ record_trade(cb, pnl).cb.daily_loss_cents <= LossCap
    /\ GateCall("record_trade", pnl, Result(record_trade(cb, pnl)), record_trade(cb, pnl).cb)
    /\ UNCHANGED elapsed

RecordError ==
    /\ cb.consecutive_errors < ErrCap
    /\ GateCall("record_error", 0, Ok, record_error(cb))
    /\ UNCHANGED elapsed

OpenPosition ==
    /\ GateCall("open_position", 0, Result(open_position(cb)), open_position(cb).cb)
    /\ UNCHANGED elapsed

ClosePosition ==
    /\ cb.open_positions > -WrapCap
    /\ GateCall("close_position", 0, Ok, close_position(cb))
    /\ UNCHANGED elapsed

ResetDaily ==
    /\ GateCall("reset_daily", 0, Ok, reset_daily(cb))
    /\ elapsed' = 0

CheckDailyReset(interval) ==
    /\ GateCall("check_daily_reset", interval, Bool(check_daily_reset(elapsed, interval)), cb)
    /\ UNCHANGED elapsed

AutoReset(cooldown) ==
    /\ GateCall("auto_reset", cooldown, Bool(AutoResets(cb, elapsed, cooldown)),
                auto_reset(cb, elapsed, cooldown))
    /\ UNCHANGED elapsed

\* time passes
Tick ==
    /\ pc = "idle"
    /\ elapsed < MaxElapsed
    /\ elapsed' = elapsed + 1
    /\ Note("tick", 0, Ok)
    /\ resp' = NoResp
    /\ cancel_calls' = <<>>
    /\ UNCHANGED <<cb, current_nonce, pc, opp, posts, partial_stuck, errors_recorded, held, outside_loop>>

-----------------------------------------------------------------------------
(* BatchOrderResponse (types/order.rs) and the venue                       *)

Hashes == {"0xa", "0xb"}

HashSeqs == UNION {[1..n -> Hashes] : n \in 0..MaxHashes}

\* the bodies a 200 / 201 answer of POST /orders can deserialize to
Responses == [kind : {"response"}, success : BOOLEAN, order_hashes : HashSeqs]

\* create_batch_orders returned Err before the request: signing failed
NoBatch == [kind |-> "error"]

\* create_batch_orders returned Err after the request: it failed in transport, the body did
\* not parse, or the status was neither 200 nor 201; a rejection for a nonce conflict is
\* such a status, with the nonce the venue expects in the error text
BatchFailure(cause, n) == [kind |-> "error", cause |-> cause, expected_nonce |-> n]

BatchFailures ==
    { BatchFailure("request", 0),
      BatchFailure("nonce_conflict", 0),
      BatchFailure("nonce_conflict", MaxNonce) }

both_succeeded(r) == r.success /\ Len(r.order_hashes) >= 2

is_partial_fill(r) == r.success /\ Len(r.order_hashes) = 1

buy_hash(r) == r.order_hashes[1]

sell_hash(r) == r.order_hashes[2]

-----------------------------------------------------------------------------
(* ArbitrageExecutor                                                       *)

\* ArbitrageExecutor.fee_rate_bps of the modelled executor (100 = 1%)
fee_rate_bps == 100

BpsPerUnit == 10000

\* opportunities handed to execute: prices in micro-dollars, size in shares
Opportunities ==
    { [bid_price |-> 750000, ask_price |-> 700000, max_size |-> 1],
      [bid_price |-> 510000, ask_price |-> 500000, max_size |-> 2],
      [bid_price |-> 505000, ask_price |-> 500000, max_size |-> 4] }

calculate_pnl(o) ==
    LET spread == o.bid_price - o.ask_price
        gross_profit == spread * o.max_size
        buy_fee == (o.ask_price * o.max_size * fee_rate_bps) \div BpsPerUnit
        sell_fee == (o.bid_price * o.max_size * fee_rate_bps) \div BpsPerUnit
    IN  gross_profit - buy_fee - sell_fee

Success(r, pnl) ==
    [kind |-> "Success", buy_hash |-> buy_hash(r), sell_hash |-> sell_hash(r),
     pnl |-> pnl, latency_measured |-> TRUE]

PartialFill(h, rolled_back) ==
    [kind |-> "PartialFill", filled_hash |-> h, rolled_back |-> rolled_back,
     latency_measured |-> TRUE]

Failed(e, measured) == [kind |-> "Failed", error |-> e, latency_measured |-> measured]

\* the early return of execute on a tripped gate: latency_ms is the literal 0
GateRefusal == Failed("Circuit breaker tripped", FALSE)

\* a failure path that gives back only one of the two slots
ReleaseOneAndRecordError(g) == record_error(close_position(g))

\* the ExecutionResult::PartialFill and ::Failed arms, and the Err arm of execute
ReleaseAndRecordError(g) == record_error(close_position(close_position(g)))

\* an update that gives the two slots back after a Success as well
update_circuit_breaker_releases(g, result) ==
    IF result.kind = "Success"
    THEN close_position(close_position(record_trade(g, result.pnl).cb))
    ELSE ReleaseAndRecordError(g)

update_circuit_breaker(g, result) ==
    IF result.kind = "Success"
    THEN record_trade(g, result.pnl).cb
    ELSE ReleaseAndRecordError(g)

\* a failed rollback that leaves the gate as it is
RollbackFailed_no_trip(g) == g

\* the Err(e) arm of the cancel in verify_and_rollback
RollbackFailed(g) == trip(g)

\* build_signed_order of each of the two requests takes one nonce; signing can fail
SignOutcomes == {"signed", "first_fails", "second_fails"}

NoncesTaken(sign) == IF sign = "first_fails" THEN 1 ELSE 2

ExecKeep == <<elapsed, partial_stuck, held, outside_loop>>

\* execute, from its call to its first suspension on the network (or to its return)
ExecuteBegin(o, sign) ==
    /\ pc = "idle"
    /\ can_execute(cb) =>
          /\ current_nonce + 2 <= MaxNonce
          /\ cb.daily_loss_cents + unsigned_abs(PnlToCents(calculate_pnl(o))) <= LossCap
    /\ last_op' = "execute"
    /\ arg' = o
    /\ pre' = Snapshot
    /\ cancel_calls' = <<>>
    /\ UNCHANGED ExecKeep
    /\ errors_recorded' = (IF can_execute(cb) /\ open_position(cb).ok
                                 /\ open_position(open_position(cb).cb).ok /\ sign # "signed"
                           THEN errors_recorded + 1
                           ELSE errors_recorded)
    /\ IF ~can_execute(cb)
       THEN /\ ret' = GateRefusal
            /\ resp' = NoResp
            /\ UNCHANGED <<cb, current_nonce, pc, opp, posts>>
       ELSE LET r1 == open_position(cb)
                r2 == open_position(r1.cb)
            IN  IF ~r1.ok
                THEN /\ ret' = Err(r1.err)
                     /\ cb' = r1.cb
                     /\ resp' = NoResp
                     /\ UNCHANGED <<current_nonce, pc, opp, posts>>
                ELSE IF ~r2.ok
                THEN /\ ret' = Err(r2.err)
                     /\ cb' = r2.cb
                     /\ resp' = NoResp
                     /\ UNCHANGED <<current_nonce, pc, opp, posts>>
                ELSE IF sign # "signed"
                THEN /\ current_nonce' = current_nonce + NoncesTaken(sign)
                     /\ resp' = NoBatch
                     /\ cb' = ReleaseAndRecordError(r2.cb)
                     /\ ret' = Failed("sign", TRUE)
                     /\ UNCHANGED <<pc, opp, posts>>
                ELSE /\ current_nonce' = current_nonce + NoncesTaken(sign)
                     /\ posts' = posts + 1
                     /\ cb' = r2.cb
                     /\ opp' = o
                     /\ pc' = "batch_wait"
                     /\ resp' = NoResp
                     /\ ret' = [kind |-> "pending"]

\* the batch request ends in an error: transport failure, 429, another status, unparseable body
BatchError(failure) ==
    /\ pc = "batch_wait"
    /\ resp' = failure
    /\ cb' = ReleaseAndRecordError(cb)
    /\ ret' = Failed("request", TRUE)
    /\ errors_recorded' = errors_recorded + 1
    /\ pc' = "idle"
    /\ opp' = NoOpp
    /\ UNCHANGED <<elapsed, current_nonce, cancel_calls, partial_stuck, posts, last_op, arg, pre, held, outside_loop>>

\* the batch request is answered 200 / 201 with body r: verify_and_rollback up to the cancel
BatchResponse(r) ==
    /\ pc = "batch_wait"
    /\ resp' = r
    /\ IF both_succeeded(r)
       THEN LET result == Success(r, calculate_pnl(opp))
            IN  /\ cb' = update_circuit_breaker(cb, result)
                /\ ret' = result
                /\ pc' = "idle"
                /\ opp' = NoOpp
                /\ UNCHANGED cancel_calls
       ELSE IF is_partial_fill(r)
       THEN /\ cancel_calls' = Append(cancel_calls, [hash |-> r.order_hashes[1], outcome |-> "pending"])
            /\ pc' = "cancel_wait"
            /\ UNCHANGED <<cb, ret, opp>>
       ELSE LET result == Failed("both failed", TRUE)
            IN  /\ cb' = update_circuit_breaker(cb, result)
                /\ ret' = result
                /\ pc' = "idle"
                /\ opp' = NoOpp
                /\ UNCHANGED cancel_calls
    /\ errors_recorded' = (IF both_succeeded(r)
                           THEN IF record_trade(cb, calculate_pnl(opp)).ok THEN 0 ELSE errors_recorded
                           ELSE IF is_partial_fill(r) THEN errors_recorded
                           ELSE errors_recorded + 1)
    /\ held' = (IF both_succeeded(r) /\ ~held.external
                THEN [held EXCEPT !.successes = @ + 1]
                ELSE held)
    /\ UNCHANGED <<elapsed, current_nonce, partial_stuck, posts, last_op, arg, pre, outside_loop>>

\* the cancel request is answered: 2xx (cancelled) or anything else
CancelResponse(cancelled) ==
    /\ pc = "cancel_wait"
    /\ LET h == cancel_calls[Len(cancel_calls)].hash
           result == PartialFill(h, cancelled)
           g == IF cancelled THEN cb ELSE RollbackFailed(cb)
       IN  /\ cb' = update_circuit_breaker(g, result)
           /\ ret' = result
    /\ cancel_calls' = [cancel_calls EXCEPT ![Len(cancel_calls)].outcome =
                                            IF cancelled THEN "cancelled" ELSE "failed"]
    /\ partial_stuck' = (partial_stuck \/ ~cancelled)
    /\ errors_recorded' = errors_recorded + 1
    /\ pc' = "idle"
    /\ opp' = NoOpp
    /\ UNCHANGED <<elapsed, current_nonce, resp, posts, last_op, arg, pre, held, outside_loop>>

\* another task holding the same Arc<CircuitBreaker> trips the gate while execute is
\* suspended on the batch request or on the cancel
OtherTaskTrips ==
    /\ pc # "idle"
    /\ ~cb.tripped
    /\ cb' = trip(cb)
    /\ UNCHANGED <<elapsed, current_nonce, pc, opp, resp, cancel_calls, partial_stuck, posts,
                   last_op, arg, ret, pre, errors_recorded, held, outside_loop>>

-----------------------------------------------------------------------------
(* Threads sharing the gate: one step per atomic operation                 *)

\* two threads holding the same Arc<CircuitBreaker>
Threads == {"t1", "t2"}

\* pnl arguments of the concurrent callers, in micro-dollars
ThreadPnl == {-20000, -10000, 10000}

ThreadIdle == [op |-> "none", pc |-> "idle", pnl |-> 0, current |-> 0]

Goto(t, l) == th' = [th EXCEPT ![t].pc = l]

Return(t) == th' = [th EXCEPT ![t] = ThreadIdle]

\* check_and_trip returned true: record_trade returns, open_position goes on to its rollback
AfterTrip(t) == IF th[t].op = "open_position" THEN Goto(t, "op_undo") ELSE Return(t)

\* record_trade: the can_execute() check
RtGate(t, pnl) ==
    /\ th[t].pc = "idle"
    /\ calls_left[t] > 0
    /\ calls_left' = [calls_left EXCEPT ![t] = @ - 1]
    /\ IF ~can_execute(cb)
       THEN UNCHANGED <<th, accepted>>
       ELSE /\ th' = [th EXCEPT ![t] = [op |-> "record_trade", pc |-> "rt_update",
                                         pnl |-> pnl, current |-> 0]]
            /\ accepted' = [accepted EXCEPT ![pnl] = @ + 1]
    /\ UNCHANGED <<cb, opened, outside_gate_threads>>

\* record_trade: fetch_add of a loss, or the load of the profit branch
RtUpdate(t) ==
    /\ th[t].pc = "rt_update"
    /\ IF th[t].pnl < 0
       THEN /\ cb' = [cb EXCEPT !.daily_loss_cents = @ + unsigned_abs(PnlToCents(th[t].pnl))]
            /\ Goto(t, "rt_errors")
       ELSE /\ th' = [th EXCEPT ![t].current = cb.daily_loss_cents, ![t].pc = "rt_store"]
            /\ UNCHANGED cb
    /\ UNCHANGED <<outside_gate_threads, calls_left, accepted, opened>>

\* record_trade: the store of the profit branch
RtStore(t) ==
    /\ th[t].pc = "rt_store"
    /\ cb' = [cb EXCEPT !.daily_loss_cents =
                            saturating_sub(th[t].current, unsigned_abs(PnlToCents(th[t].pnl)))]
    /\ Goto(t, "rt_errors")
    /\ UNCHANGED <<outside_gate_threads, calls_left, accepted, opened>>

\* record_trade: consecutive_errors.store(0)
RtResetErrors(t) ==
    /\ th[t].pc = "rt_errors"
    /\ cb' = [cb EXCEPT !.consecutive_errors = 0]
    /\ Goto(t, "ct_loss")
    /\ UNCHANGED <<outside_gate_threads, calls_left, accepted, opened>>

\* check_and_trip: the daily loss check
CtLoss(t) ==
    /\ th[t].pc = "ct_loss"
    /\ IF DailyLossReached(cb)
       THEN cb' = trip(cb) /\ AfterTrip(t)
       ELSE UNCHANGED cb /\ Goto(t, "ct_positions")
    /\ UNCHANGED <<outside_gate_threads, calls_left, accepted, opened>>

\* check_and_trip: the open positions check
CtPositions(t) ==
    /\ th[t].pc = "ct_positions"
    /\ IF PositionsExceeded(cb)
       THEN cb' = trip(cb) /\ AfterTrip(t)
       ELSE UNCHANGED cb /\ Goto(t, "ct_errors")
    /\ UNCHANGED <<outside_gate_threads, calls_left, accepted, opened>>

\* check_and_trip: the consecutive errors check
CtErrors(t) ==
    /\ th[t].pc = "ct_errors"
    /\ IF ErrorsReached(cb)
       THEN cb' = trip(cb) /\ AfterTrip(t) /\ UNCHANGED opened
       ELSE /\ UNCHANGED cb
            /\ Return(t)
            /\ opened' = [opened EXCEPT !.ok = IF th[t].op = "open_position" THEN @ + 1 ELSE @]
    /\ UNCHANGED <<outside_gate_threads, calls_left, accepted>>

\* open_position: the can_execute() check
OpGate(t) ==
    /\ th[t].pc = "idle"
    /\ calls_left[t] > 0
    /\ calls_left' = [calls_left EXCEPT ![t] = @ - 1]
    /\ opened' = [opened EXCEPT !.p = IF \A u \in Threads : calls_left[u] = CallsPerThread
                                      THEN cb.open_positions ELSE @]
    /\ IF ~can_execute(cb)
       THEN UNCHANGED th
       ELSE th' = [th EXCEPT ![t] = [op |-> "open_position", pc |-> "op_add", pnl |-> 0, current |-> 0]]
    /\ UNCHANGED <<cb, accepted, outside_gate_threads>>

\* open_position: open_positions.fetch_add(1)
OpAdd(t) ==
    /\ th[t].pc = "op_add"
    /\ cb' = [cb EXCEPT !.open_positions = WrappingAdd1(@)]
    /\ Goto(t, "ct_loss")
    /\ UNCHANGED <<outside_gate_threads, calls_left, accepted, opened>>

\* a refusal that keeps its increment
OpUndo_keeps_increment(t) ==
    /\ th[t].pc = "op_undo"
    /\ Return(t)
    /\ UNCHANGED <<cb, outside_gate_threads, calls_left, accepted, opened>>

\* open_position: check_and_trip returned true, open_positions.fetch_sub(1) and Err
OpUndo(t) ==
    /\ th[t].pc = "op_undo"
    /\ cb' = [cb EXCEPT !.open_positions = WrappingSub1(@)]
    /\ Return(t)
    /\ UNCHANGED <<outside_gate_threads, calls_left, accepted, opened>>

-----------------------------------------------------------------------------
(* NonceManager (clob/nonce_manager.rs), called from one thread            *)

\* a fetch_add whose caller gets the new value
next_nonce_returns_new(n) == [ret |-> n + 1, current |-> n + 1]

\* next_nonce: fetch_add(1) returns the value before the addition
next_nonce(n) == [ret |-> n, current |-> n + 1]

\* a comparison that takes an equal server nonce for a local lead
ServerStrictlyAhead(server_nonce, current) == server_nonce > current

\* server_nonce >= current
ServerAhead(server_nonce, current) == server_nonce >= current

\* handle_conflict, on the value current it loaded
handle_conflict(current, server_nonce) ==
    IF ServerAhead(server_nonce, current) THEN server_nonce + 1 ELSE current

U64(n) == [kind |-> "u64", value |-> n]

\* the call made before this one: its name, the server nonce if it was handle_conflict,
\* and the counter when it was made
Preceding ==
    [op |-> last_op, arg |-> IF last_op = "handle_conflict" THEN arg ELSE 0, nonce |-> pre.nonce]

NonceKeep == <<cb, elapsed, pc, opp, resp, cancel_calls, partial_stuck, posts, errors_recorded, held, outside_loop>>

NonceCall(op, a, r, n) ==
    /\ current_nonce' = n
    /\ Note(op, a, r)
    /\ UNCHANGED NonceKeep

Initialize(n) == NonceCall("initialize", n, Ok, n)

NextNonce ==
    /\ current_nonce <= MaxNonce
    /\ NonceCall("next_nonce", Preceding, U64(next_nonce(current_nonce).ret),
                 next_nonce(current_nonce).current)

HandleConflict(server_nonce) ==
    NonceCall("handle_conflict", server_nonce, Ok, handle_conflict(current_nonce, server_nonce))

Current == NonceCall("current", 0, U64(current_nonce), current_nonce)

-----------------------------------------------------------------------------
(* Threads sharing one ClobClient: build_signed_order and handle_conflict, *)
(* one step per access to the counter or to the clock                      *)

\* ClobConfig.maker_address of the client
Maker == "0xmaker"

\* the expected nonces a venue reports
ServerNonces == 0..MaxNonce

\* the expected nonces reported to the threads: behind, at and ahead of where they start
ThreadServerNonces == 0..(MaxStart + 1)

\* SystemTime::now().duration_since(UNIX_EPOCH).as_nanos() as u64
generate_salt == wall_clock

SignerKeep ==
    <<cb, elapsed, pc, opp, resp, cancel_calls, partial_stuck, posts, last_op, arg, ret, pre, accepted, opened,
      errors_recorded, held,
      bot_vars, ws_vars, redeem_vars, detect_vars>>

\* no thread has made a call yet
NotStarted == \A t \in Threads : th[t] = ThreadIdle /\ calls_left[t] = CallsPerThread

\* NonceManager::with_nonce / initialize, before the threads start
SnInitialize(n) ==
    /\ NotStarted
    /\ n # current_nonce
    /\ current_nonce' = n
    /\ nonce0' = n
    /\ UNCHANGED <<th, calls_left, wall_clock, issued, signed, conflict_calls, SignerKeep>>

\* build_signed_order: next_nonce
SoNonce(t) ==
    /\ th[t].pc = "idle"
    /\ calls_left[t] > 0
    /\ calls_left' = [calls_left EXCEPT ![t] = @ - 1]
    /\ LET r == next_nonce(current_nonce)
       IN  /\ current_nonce' = r.current
           /\ issued' = issued (+) SetToBag({r.ret})
           /\ th' = [th EXCEPT ![t] = [op |-> "build_signed_order", pc |-> "so_sign", nonce |-> r.ret]]
    /\ UNCHANGED <<wall_clock, signed, conflict_calls, nonce0, SignerKeep>>

\* build_signed_order: generate_salt, then sign_order, which signs or fails
SoSign(t, ok) ==
    /\ th[t].pc = "so_sign"
    /\ signed' = IF ok
                 THEN signed (+) SetToBag({[maker |-> Maker, nonce |-> th[t].nonce, salt |-> generate_salt]})
                 ELSE signed
    /\ Return(t)
    /\ UNCHANGED <<current_nonce, calls_left, wall_clock, issued, conflict_calls, nonce0, SignerKeep>>

\* handle_conflict: the load of current_nonce
HcLoad(t, server_nonce) ==
    /\ th[t].pc = "idle"
    /\ calls_left[t] > 0
    /\ calls_left' = [calls_left EXCEPT ![t] = @ - 1]
    /\ conflict_calls' = conflict_calls + 1
    /\ th' = [th EXCEPT ![t] = [op |-> "handle_conflict", pc |-> "hc_store",
                                 server_nonce |-> server_nonce, current |-> current_nonce]]
    /\ UNCHANGED <<current_nonce, wall_clock, issued, signed, nonce0, SignerKeep>>

\* handle_conflict: the comparison with the loaded value and the store
HcStore(t) ==
    /\ th[t].pc = "hc_store"
    /\ current_nonce' = IF ServerAhead(th[t].server_nonce, th[t].current)
                        THEN th[t].server_nonce + 1
                        ELSE current_nonce
    /\ Return(t)
    /\ UNCHANGED <<calls_left, wall_clock, issued, signed, conflict_calls, nonce0, SignerKeep>>

\* the wall clock advances
ClockTick ==
    /\ wall_clock < MaxClock
    /\ wall_clock' = wall_clock + 1
    /\ UNCHANGED <<current_nonce, th, calls_left, issued, signed, conflict_calls, nonce0, SignerKeep>>

-----------------------------------------------------------------------------
(* BinaryArbitrageBot (bin/binary_arbitrage_bot.rs)                        *)

\* opportunities the detector hands to execute_arbitrage
BotOpportunities == [market_id : {"m1", "m2"}, side : {"Buy", "Sell"}, max_size : {5}]

NoBotOpp == [market_id |-> "", side |-> "", max_size |-> 0]

\* a bot that skips its dry-run check
DryRunIgnored(dry) == FALSE

\* if self.dry_run { ...; return Ok(()) }
DryRunShortCircuits(dry) == dry

\* RedeemablePosition { market_id, size, redeemed: false, .. }
RedeemablePosition(o) == [market_id |-> o.market_id, size |-> o.max_size, redeemed |-> FALSE]

\* RedemptionManager::add_position: HashMap::insert under the market id
add_position(ps, position) == (position.market_id :> position) @@ ps

\* the state an execute_arbitrage call starts in
BotSnapshot == [nonce |-> current_nonce, posts |-> posts, positions |-> positions]

\* execute_arbitrage has no call of the risk gate and submits through the client itself
BotCall(o, r, batches) ==
    [op |-> "execute_arbitrage", opp |-> o, ret |-> r, pre |-> BotSnapshot,
     batch_calls |-> batches, gate_consulted |-> FALSE, via |-> "ClobClient::create_batch_orders"]

BotKeep ==
    <<cb, elapsed, pc, opp, resp, cancel_calls, partial_stuck, last_op, arg, ret, pre, errors_recorded, held,
      thread_vars, signer_vars, ws_vars, redeem_vars, detect_vars>>

\* main: BinaryArbitrageBot::new(config, dry_run) and start
BotNew(dry) ==
    /\ bot_pc = "off"
    /\ dry_run' = dry
    /\ bot_pc' = "scan"
    /\ UNCHANGED <<current_nonce, posts, bot_opp, positions, bot_call, BotKeep>>

\* detection_loop found the opportunity o: execute_arbitrage up to the batch request
ExecuteArbitrage(o, sign) ==
    /\ bot_pc = "scan"
    /\ ~DryRunShortCircuits(dry_run) => current_nonce + 2 <= MaxNonce
    /\ IF DryRunShortCircuits(dry_run)
       THEN /\ bot_call' = BotCall(o, Ok, 0)
            /\ UNCHANGED <<current_nonce, posts, bot_pc, bot_opp>>
       ELSE /\ current_nonce' = current_nonce + NoncesTaken(sign)
            /\ IF sign # "signed"
               THEN /\ bot_call' = BotCall(o, Err("sign"), 1)
                    /\ UNCHANGED <<posts, bot_pc, bot_opp>>
               ELSE /\ posts' = posts + 1
                    /\ bot_call' = BotCall(o, [kind |-> "pending"], 1)
                    /\ bot_pc' = "batch_wait"
                    /\ bot_opp' = o
    /\ UNCHANGED <<dry_run, positions, BotKeep>>

\* create_batch_orders returns Err, which execute_arbitrage propagates
BotBatchError(failure) ==
    /\ bot_pc = "batch_wait"
    /\ bot_call' = [bot_call EXCEPT !.ret = Err(failure.cause)]
    /\ bot_pc' = "scan"
    /\ bot_opp' = NoBotOpp
    /\ UNCHANGED <<current_nonce, posts, dry_run, positions, BotKeep>>

\* create_batch_orders returns the body r of a 200 / 201 answer
BotBatchResponse(r) ==
    /\ bot_pc = "batch_wait"
    /\ positions' = IF r.success /\ Len(r.order_hashes) >= 2
                    THEN add_position(positions, RedeemablePosition(bot_opp))
                    ELSE positions
    /\ bot_call' = [bot_call EXCEPT !.ret = Ok]
    /\ bot_pc' = "scan"
    /\ bot_opp' = NoBotOpp
    /\ UNCHANGED <<current_nonce, posts, dry_run, BotKeep>>

-----------------------------------------------------------------------------
(* WebSocketManager (services/websocket/manager.rs), PolymarketWebSocket   *)
(* (services/websocket/polymarket_ws.rs) and the task draining the channel *)

\* WebSocketManager::new, in seconds
initial_reconnect_interval == 1
max_reconnect_interval == 60
ping_interval == 30
ping_timeout == 10

Min(a, b) == IF a <= b THEN a ELSE b

\* a backoff that doubles without a cap
next_interval_uncapped(interval) == interval * 2

\* min(current_reconnect_interval * 2, max_reconnect_interval)
next_interval(interval) == Min(interval * 2, max_reconnect_interval)

\* PolymarketWebSocket.subscriptions
Subscriptions == {"YES", "NO"}

\* the frames send_subscription writes to the stream: the manager's own send_subscription
\* is the one connect_and_listen calls, and it sends nothing
send_subscription(subscriptions) == <<>>

\* the messages a text frame parses to: orderbook updates of a token, and the others
FeedMessages ==
    [type : {"orderbook"}, token_id : {"YES"}, timestamp : 1..MaxTimestamp]
        \cup {[type |-> "trade", token_id |-> "YES", timestamp |-> 1]}

NoMessage == [type |-> "none"]

\* OrderbookUpdate::to_order_book
to_order_book(update) == [token_id |-> update.token_id, timestamp |-> update.timestamp]

\* process_message: Some(update) for an orderbook message, None for the others
process_message(msg) ==
    IF msg.type = "orderbook"
    THEN [some |-> TRUE, token_id |-> msg.token_id, order_book |-> to_order_book(msg)]
    ELSE [some |-> FALSE]

\* since the last handshake (or the start): failed connection attempts in a row, returns of
\* connect_and_listen, the last sleep of the backoff; on this connection: why it ended,
\* subscription frames and pings sent, whether a ping is unanswered and for how long,
\* messages handled
NewWsHist ==
    [fails |-> 0, returns |-> 0, last_wait |-> 0, exit |-> "none", subscription_frames |-> 0,
     pings_sent |-> 0, ping_outstanding |-> FALSE, since_ping |-> 0, handled |-> 0]

WsKeep == <<cb, loop_vars, thread_vars, signer_vars, bot_vars, redeem_vars, detect_vars>>

\* connect_and_listen returned: start goes to sleep for current_reconnect_interval
EnterBackoff(why, failed_attempt) ==
    /\ ws_pc' = "backoff"
    /\ ws_hist' = [ws_hist EXCEPT !.exit = why,
                                  !.fails = IF failed_attempt THEN @ + 1 ELSE 0,
                                  !.returns = @ + 1,
                                  !.last_wait = current_reconnect_interval]

\* connect_with_optimizations fails
WsConnectFails ==
    /\ ws_pc = "connecting"
    /\ ws_hist.returns < MaxAttempts
    /\ EnterBackoff("connect_failed", TRUE)
    /\ UNCHANGED <<current_reconnect_interval, idle, since_pong, chan, pending, cache, rx_closed, WsKeep>>

\* the handshake succeeds: reset the interval, send_subscription, start the ping timer
WsConnected ==
    /\ ws_pc = "connecting"
    /\ current_reconnect_interval' = initial_reconnect_interval
    /\ since_pong' = 0
    /\ idle' = 0
    /\ ws_pc' = "listening"
    /\ ws_hist' = [NewWsHist EXCEPT !.subscription_frames = Len(send_subscription(Subscriptions))]
    /\ UNCHANGED <<chan, pending, cache, rx_closed, WsKeep>>

\* a Text or Binary frame arrives: parse_and_send
WsText(msg, parses) ==
    /\ ws_pc = "listening"
    /\ idle' = 0
    /\ IF ~parses
       THEN /\ ws_hist' = [ws_hist EXCEPT !.handled = Min(@ + 1, 1)]
            /\ UNCHANGED <<ws_pc, chan, pending>>
       ELSE IF rx_closed
       THEN /\ EnterBackoff("send_failed", FALSE)
            /\ UNCHANGED <<chan, pending>>
       ELSE IF Len(chan) < ChannelCapacity
       THEN /\ ws_hist' = [ws_hist EXCEPT !.handled = Min(@ + 1, 1)]
            /\ chan' = Append(chan, msg)
            /\ UNCHANGED <<ws_pc, pending>>
       ELSE /\ ws_hist' = [ws_hist EXCEPT !.handled = Min(@ + 1, 1)]
            /\ ws_pc' = "send_blocked"
            /\ pending' = msg
            /\ UNCHANGED chan
    /\ UNCHANGED <<current_reconnect_interval, since_pong, cache, rx_closed, WsKeep>>

\* the consumer made room: message_tx.send() completes and the message loop goes on
WsSendResumes ==
    /\ ws_pc = "send_blocked"
    /\ ~rx_closed
    /\ Len(chan) < ChannelCapacity
    /\ chan' = Append(chan, pending)
    /\ pending' = NoMessage
    /\ ws_pc' = "listening"
    /\ idle' = 0
    /\ UNCHANGED <<current_reconnect_interval, since_pong, cache, ws_hist, rx_closed, WsKeep>>

\* the receiver is gone: the pending message_tx.send() returns Err, and so does
\* connect_and_listen
WsSendFails ==
    /\ ws_pc = "send_blocked"
    /\ rx_closed
    /\ pending' = NoMessage
    /\ EnterBackoff("send_failed", FALSE)
    /\ UNCHANGED <<current_reconnect_interval, idle, since_pong, chan, cache, rx_closed, WsKeep>>

\* a Pong frame arrives
WsPong ==
    /\ ws_pc = "listening"
    /\ since_pong' = 0
    /\ idle' = 0
    /\ ws_hist' = [ws_hist EXCEPT !.ping_outstanding = FALSE, !.since_ping = 0,
                                  !.handled = Min(@ + 1, 1)]
    /\ UNCHANGED <<ws_pc, current_reconnect_interval, chan, pending, cache, rx_closed, WsKeep>>

\* a Ping frame or a raw frame arrives
WsOtherFrame ==
    /\ ws_pc = "listening"
    /\ idle' = 0
    /\ ws_hist' = [ws_hist EXCEPT !.handled = Min(@ + 1, 1)]
    /\ UNCHANGED <<ws_pc, current_reconnect_interval, since_pong, chan, pending, cache, rx_closed, WsKeep>>

\* a Close frame, a stream error or the end of the stream
WsConnectionLost(why) ==
    /\ ws_pc = "listening"
    /\ EnterBackoff(why, FALSE)
    /\ UNCHANGED <<current_reconnect_interval, idle, since_pong, chan, pending, cache, rx_closed, WsKeep>>

\* sleep(ping_interval) of the select! completes
WsPingTimer ==
    /\ ws_pc = "listening"
    /\ idle >= ping_interval
    /\ IF since_pong > ping_timeout
       THEN /\ EnterBackoff("ping_timeout", FALSE)
            /\ UNCHANGED idle
       ELSE /\ ws_hist' = [ws_hist EXCEPT !.pings_sent = Min(@ + 1, 1),
                                          !.ping_outstanding = TRUE, !.since_ping = 0]
            /\ idle' = 0
            /\ UNCHANGED ws_pc
    /\ UNCHANGED <<current_reconnect_interval, since_pong, chan, pending, cache, rx_closed, WsKeep>>

\* time passes on a connection
WsTick ==
    /\ ws_pc \in {"listening", "send_blocked"}
    /\ ws_pc = "listening" => idle < ping_interval
    /\ since_pong < ping_interval + ping_timeout
    /\ idle' = IF ws_pc = "listening" THEN Min(idle + TickSecs, ping_interval) ELSE idle
    /\ since_pong' = Min(since_pong + TickSecs, ping_interval + ping_timeout)
    /\ ws_hist' = [ws_hist EXCEPT !.since_ping =
                       IF ws_hist.ping_outstanding
                       THEN Min(@ + TickSecs, ping_interval + ping_timeout) ELSE @]
    /\ UNCHANGED <<ws_pc, current_reconnect_interval, chan, pending, cache, rx_closed, WsKeep>>

\* a start that returns after the sleep instead of looping
WsBackoffElapsed_returns ==
    /\ ws_pc = "backoff"
    /\ ws_pc' = "returned"
    /\ UNCHANGED <<current_reconnect_interval, idle, since_pong, chan, pending, cache, ws_hist,
                   rx_closed, WsKeep>>

\* the sleep of the backoff is over: double the interval and connect again
WsBackoffElapsed ==
    /\ ws_pc = "backoff"
    /\ current_reconnect_interval' = next_interval(current_reconnect_interval)
    /\ ws_pc' = "connecting"
    /\ UNCHANGED <<idle, since_pong, chan, pending, cache, ws_hist, rx_closed, WsKeep>>

\* cache.insert(update.token_id, update.order_book)
insert(c, update) == (update.token_id :> update.order_book) @@ c

\* the consumer: rx.recv(), process_message, cache.insert
Consume ==
    /\ ~rx_closed
    /\ chan # <<>>
    /\ chan' = Tail(chan)
    /\ LET update == process_message(Head(chan))
       IN  cache' = IF update.some THEN insert(cache, update) ELSE cache
    /\ UNCHANGED <<ws_pc, current_reconnect_interval, idle, since_pong, pending, ws_hist, rx_closed, WsKeep>>

\* the consumer task ends and drops the receiver with whatever it still holds
ConsumerDrops ==
    /\ ~rx_closed
    /\ rx_closed' = TRUE
    /\ chan' = <<>>
    /\ UNCHANGED <<ws_pc, current_reconnect_interval, idle, since_pong, pending, cache, ws_hist, WsKeep>>

-----------------------------------------------------------------------------
(* RedemptionManager (core/redemption.rs); amounts in whole dollars        *)

None == [some |-> FALSE]
Some(x) == [some |-> TRUE, value |-> x]

Markets == {"m1", "m2"}

\* the positions handed to add_position: redeemed is false, as in execute_arbitrage and
\* in create_test_position
NewPositions ==
    [market_id : Markets, size : {100}, cost : {93, 95},
     expiry : {None} \cup {Some(t) : t \in 1..MaxExpiry}, redeemed : {FALSE}]

\* a readiness test that takes a position without expiry for expired
is_ready_without_expiry(p, now) ==
    IF p.redeemed THEN FALSE
    ELSE IF p.expiry.some THEN now >= p.expiry.value ELSE TRUE

\* RedeemablePosition::is_ready_to_redeem
is_ready_to_redeem(p, now) ==
    IF p.redeemed THEN FALSE
    ELSE IF p.expiry.some THEN now >= p.expiry.value ELSE FALSE

\* RedemptionManager::get_redeemable_positions
get_redeemable_positions(ps, now) ==
    {ps[m] : m \in {k \in DOMAIN ps : is_ready_to_redeem(ps[k], now)}}

\* RedemptionManager::mark_redeemed
mark_redeemed(ps, market_id) ==
    IF market_id \notin DOMAIN ps
    THEN [ok |-> FALSE, positions |-> ps]
    ELSE [ok |-> TRUE, positions |-> [ps EXCEPT ![market_id].redeemed = TRUE]]

position_count(ps) == Cardinality(DOMAIN ps)

unredeemed_count(ps) == Cardinality({m \in DOMAIN ps : ~ps[m].redeemed})

\* RedemptionManager::redeem_position: the simulated payout is the size
redeem_position(ps, market_id, now) ==
    IF market_id \notin DOMAIN ps
    THEN [ok |-> FALSE, error |-> "Position not found", positions |-> ps]
    ELSE IF ps[market_id].redeemed
    THEN [ok |-> FALSE, error |-> "Position already redeemed", positions |-> ps]
    ELSE IF ~is_ready_to_redeem(ps[market_id], now)
    THEN [ok |-> FALSE, error |-> "Position not ready to redeem yet", positions |-> ps]
    ELSE LET payout == ps[market_id].size
             profit == payout - ps[market_id].cost
             marked == mark_redeemed(ps, market_id)
         IN  IF marked.ok
             THEN [ok |-> TRUE, profit |-> profit, positions |-> marked.positions]
             ELSE [ok |-> FALSE, error |-> "Position not found", positions |-> ps]

\* the loop of auto_redeem_all over the market ids collected before it
RECURSIVE redeem_each(_, _, _, _)
redeem_each(ps, redeemable, now, total_profit) ==
    IF redeemable = {}
    THEN [ret |-> total_profit, positions |-> ps]
    ELSE LET market_id == CHOOSE m \in redeemable : TRUE
             r == redeem_position(ps, market_id, now)
         IN  redeem_each(r.positions, redeemable \ {market_id}, now,
                         IF r.ok THEN total_profit + r.profit ELSE total_profit)

\* RedemptionManager::auto_redeem_all
auto_redeem_all(ps, now) ==
    LET redeemable == {p.market_id : p \in get_redeemable_positions(ps, now)}
    IN  IF redeemable = {}
        THEN [ret |-> 0, positions |-> ps]
        ELSE redeem_each(ps, redeemable, now, 0)

RedeemKeep ==
    <<cb, loop_vars, thread_vars, signer_vars, ws_vars, dry_run, bot_pc, bot_opp, bot_call,
      detect_vars>>

\* nothing but add_position was called since RedemptionManager::new
OnlyAdds == red_call.op = "new" \/ (red_call.op = "add_position" /\ red_call.from_new)

\* manager.add_position(position)
RmAddPosition(position) ==
    /\ OnlyAdds => Len(added) < MaxAdds
    /\ positions' = add_position(positions, position)
    /\ added' = IF OnlyAdds THEN Append(added, position) ELSE <<>>
    /\ red_call' = [op |-> "add_position", from_new |-> OnlyAdds]
    /\ UNCHANGED <<utc_now, payouts, RedeemKeep>>

\* manager.mark_redeemed(&market_id)
RmMarkRedeemed(market_id) ==
    /\ positions' = mark_redeemed(positions, market_id).positions
    /\ red_call' = [op |-> "mark_redeemed", market_id |-> market_id,
                    ok |-> mark_redeemed(positions, market_id).ok]
    /\ added' = <<>>
    /\ UNCHANGED <<utc_now, payouts, RedeemKeep>>

\* manager.redeem_position(&market_id, client)
RmRedeemPosition(market_id) ==
    LET r == redeem_position(positions, market_id, utc_now)
    IN  /\ positions' = r.positions
        /\ red_call' = [op |-> "redeem_position", market_id |-> market_id, ok |-> r.ok]
        /\ payouts' = IF r.ok THEN [payouts EXCEPT ![market_id] = Min(@ + 1, 2)] ELSE payouts
        /\ added' = <<>>
        /\ UNCHANGED <<utc_now, RedeemKeep>>

\* manager.auto_redeem_all(client)
RmAutoRedeemAll ==
    LET r == auto_redeem_all(positions, utc_now)
    IN  /\ positions' = r.positions
        /\ red_call' = [op |-> "auto_redeem_all", ret |-> r.ret, pre |-> positions,
                        now |-> utc_now]
        /\ payouts' = [m \in Markets |->
                          IF m \in DOMAIN positions /\ is_ready_to_redeem(positions[m], utc_now)
                          THEN Min(payouts[m] + 1, 2) ELSE payouts[m]]
        /\ added' = <<>>
        /\ UNCHANGED <<utc_now, RedeemKeep>>

\* time passes
RmClockTick ==
    /\ utc_now < MaxNow
    /\ utc_now' = utc_now + 1
    /\ UNCHANGED <<positions, red_call, added, payouts, RedeemKeep>>

-----------------------------------------------------------------------------
(* FixedPrice (utils/fixed_point.rs) and the detectors (core/arbitrage).   *)
(* An f64 price or ratio is carried in tenths of a micro-unit, a           *)
(* FixedPrice in micro-units, a size in whole dollars.                     *)

SCALE == 1000000
TenthsPerMicro == 10

\* FixedPrice::from_f64: (value * SCALE).round(), half away from zero
from_f64(value) == (value + (TenthsPerMicro \div 2)) \div TenthsPerMicro

\* FixedPrice::to_f64
to_f64(raw) == raw * TenthsPerMicro

\* floor(a * 10^digits / b) for b > 0, by long division: the quotient the 128-bit
\* intermediate of div_price yields
RECURSIVE ScaledQuot(_, _, _, _)
ScaledQuot(q, r, b, digits) ==
    IF digits = 0 THEN q
    ELSE ScaledQuot(q * 10 + ((r * 10) \div b), (r * 10) % b, b, digits - 1)

\* a call that panicked, and a call that returned a Vec or an array
Panicked == [panic |-> TRUE]
Returned(items) == [panic |-> FALSE, items |-> items]
IsPanic(r) == "panic" \in DOMAIN r /\ r.panic

\* FixedPrice::div_price: (a * SCALE) / b in u128, which panics when b is 0
div_price(a, b) ==
    IF b = 0 THEN Panicked ELSE Some(ScaledQuot(a \div b, a % b, b, 6))

\* FixedPrice::spread: checked_sub
spread(bid, ask) == IF bid >= ask THEN Some(bid - ask) ELSE None

\* FixedPrice::profit_margin
profit_margin(bid, ask) ==
    IF ~spread(bid, ask).some THEN None ELSE div_price(spread(bid, ask).value, ask)

\* ArbitrageConfig::default: min_profit_margin 0.02, min_size 10.0, max_spread 0.50
DefaultConfig == [min_profit_margin |-> 200000, min_size |-> 10, max_spread |-> 5000000]

Configs == {DefaultConfig}

\* the f64 prices of the levels: 0.0, 0.2, 0.204, 0.5, 0.5099996, 0.51
LevelPrices == {0, 2000000, 2040000, 5000000, 5099996, 5100000}

Levels == [price : LevelPrices, size : {5, 100}]

\* a book by its best levels: OrderBook::best_bid and best_ask are the heads of bids and asks
Books == [market_id : {"m1"}, token_id : {"t1"},
          best_bid : {None} \cup {Some(l) : l \in Levels},
          best_ask : {None} \cup {Some(l) : l \in Levels}]

Book(bid_price, ask_price) ==
    [market_id |-> "m1", token_id |-> "t1",
     best_bid |-> Some([price |-> bid_price, size |-> 100]),
     best_ask |-> Some([price |-> ask_price, size |-> 100])]

\* the books the lists of the batch detectors are made of
BatchBooks ==
    {Book(5100000, 5000000), Book(2040000, 2000000), Book(5099996, 5000000), Book(2000000, 0),
     [market_id |-> "m1", token_id |-> "t1", best_bid |-> None, best_ask |-> None]}

\* ArbitrageOpportunity::new; profit_margin and expected_profit are functions of the prices
\* and the size
ArbitrageOpportunity(market_id, token_id, bid_price, ask_price, max_size) ==
    IF bid_price <= ask_price THEN None
    ELSE Some([market_id |-> market_id, token_id |-> token_id, bid_price |-> bid_price,
               ask_price |-> ask_price, max_size |-> max_size])

\* a detector that also rejects a margin equal to the threshold
AtOrBelowThreshold(margin, min_profit) == margin <= min_profit

\* if profit_margin < min_profit_fixed { return None }
BelowThreshold(margin, min_profit) == margin < min_profit

\* ScalarArbitrageDetector::detect
detect(config, book) ==
    IF ~book.best_bid.some \/ ~book.best_ask.some THEN None
    ELSE LET best_bid == book.best_bid.value
             best_ask == book.best_ask.value
             max_size == Min(best_bid.size, best_ask.size)
             bid_price == from_f64(best_bid.price)
             ask_price == from_f64(best_ask.price)
             spread_fixed == saturating_sub(bid_price, ask_price)
             max_spread_fixed == from_f64(config.max_spread)
             min_profit_fixed == from_f64(config.min_profit_margin)
             margin == profit_margin(bid_price, ask_price)
         IN  IF max_size < config.min_size THEN None
             ELSE IF bid_price <= ask_price THEN None
             ELSE IF spread_fixed > max_spread_fixed THEN None
             ELSE IF IsPanic(margin) THEN Panicked
             ELSE IF ~margin.some THEN None
             ELSE IF BelowThreshold(margin.value, min_profit_fixed) THEN None
             ELSE ArbitrageOpportunity(book.market_id, book.token_id, to_f64(bid_price),
                                       to_f64(ask_price), max_size)

\* the Some results of a sequence of detections, or a panic if one of them panicked
RECURSIVE Flatten(_)
Flatten(results) ==
    IF results = <<>> THEN Returned(<<>>)
    ELSE IF IsPanic(Head(results)) THEN Panicked
    ELSE LET rest == Flatten(Tail(results))
         IN  IF IsPanic(rest) THEN Panicked
             ELSE IF Head(results).some THEN Returned(<<Head(results).value>> \o rest.items)
             ELSE rest

\* ScalarArbitrageDetector::detect_batch
scalar_detect_batch(config, markets) ==
    Flatten([i \in 1..Len(markets) |-> detect(config, markets[i])])

\* the pairs of f64 prices whose binary64 quotient (bid - ask) / ask comes out below the
\* decimal 0.02 it equals in exact arithmetic: (0.204 - 0.2) / 0.2 = 0.01999999999999988
F64RoundedBelow == {<<2040000, 2000000, 200000>>}

\* (bid - ask) / ask < min_profit_margin in f64; the quotient by zero is +inf
f64_margin_below(bid, ask, min_profit_margin) ==
    IF ask = 0 THEN FALSE
    ELSE IF <<bid, ask, min_profit_margin>> \in F64RoundedBelow THEN TRUE
    ELSE ScaledQuot((bid - ask) \div ask, (bid - ask) % ask, ask, 7) < min_profit_margin

\* one lane of SimdArbitrageDetector::detect_batch_simd (f64x4)
simd_lane(config, book) ==
    LET bid == IF book.best_bid.some THEN book.best_bid.value.price ELSE 0
        ask == IF book.best_ask.some THEN book.best_ask.value.price ELSE to_f64(SCALE)
        bid_size == IF book.best_bid.some THEN book.best_bid.value.size ELSE 0
        ask_size == IF book.best_ask.some THEN book.best_ask.value.size ELSE 0
        max_size == Min(bid_size, ask_size)
    IN  IF bid - ask <= 0 THEN None
        ELSE IF f64_margin_below(bid, ask, config.min_profit_margin) THEN None
        ELSE IF bid - ask > config.max_spread THEN None
        ELSE IF max_size < config.min_size THEN None
        ELSE ArbitrageOpportunity(book.market_id, book.token_id, bid, ask, max_size)

\* SimdArbitrageDetector::detect_batch_simd
detect_batch_simd(config, markets) ==
    Returned([i \in 1..4 |-> simd_lane(config, markets[i])])

\* one lane of SimdArbitrageDetector::detect_batch_simd_fixed (u64x4)
simd_fixed_lane(config, book) ==
    LET bid_raw == IF book.best_bid.some THEN from_f64(book.best_bid.value.price) ELSE 0
        ask_raw == IF book.best_ask.some THEN from_f64(book.best_ask.value.price)
                                         ELSE from_f64(to_f64(SCALE))
        bid_size == IF book.best_bid.some THEN book.best_bid.value.size ELSE 0
        ask_size == IF book.best_ask.some THEN book.best_ask.value.size ELSE 0
        max_size == Min(bid_size, ask_size)
        margin == profit_margin(bid_raw, ask_raw)
    IN  IF ~(bid_raw > ask_raw) THEN None
        ELSE IF bid_raw - ask_raw > from_f64(config.max_spread) THEN None
        ELSE IF IsPanic(margin) THEN Panicked
        ELSE IF ~margin.some THEN None
        ELSE IF margin.value < from_f64(config.min_profit_margin) THEN None
        ELSE IF max_size < config.min_size THEN None
        ELSE ArbitrageOpportunity(book.market_id, book.token_id, to_f64(bid_raw),
                                  to_f64(ask_raw), max_size)

\* SimdArbitrageDetector::detect_batch_simd_fixed: the lanes, or a panic if one panicked
detect_batch_simd_fixed(config, markets) ==
    LET lanes == [i \in 1..4 |-> simd_fixed_lane(config, markets[i])]
    IN  IF \E i \in 1..4 : IsPanic(lanes[i]) THEN Panicked ELSE Returned(lanes)

\* SimdArbitrageDetector::detect_scalar (f64)
detect_scalar(config, book) ==
    IF ~book.best_bid.some \/ ~book.best_ask.some THEN None
    ELSE LET best_bid == book.best_bid.value
             best_ask == book.best_ask.value
             max_size == Min(best_bid.size, best_ask.size)
         IN  IF best_bid.price <= best_ask.price THEN None
             ELSE IF best_bid.price - best_ask.price > config.max_spread
                     \/ f64_margin_below(best_bid.price, best_ask.price, config.min_profit_margin)
             THEN None
             ELSE IF max_size < config.min_size THEN None
             ELSE ArbitrageOpportunity(book.market_id, book.token_id, best_bid.price,
                                       best_ask.price, max_size)

\* SimdArbitrageDetector::detect_batch: chunks of four through the f64 lanes, a shorter
\* last chunk through detect_scalar
RECURSIVE simd_detect_batch(_, _)
simd_detect_batch(config, markets) ==
    IF markets = <<>> THEN Returned(<<>>)
    ELSE IF Len(markets) >= 4
    THEN Returned(Flatten(detect_batch_simd(config, SubSeq(markets, 1, 4)).items).items
                      \o simd_detect_batch(config, SubSeq(markets, 5, Len(markets))).items)
    ELSE Flatten([i \in 1..Len(markets) |-> detect_scalar(config, markets[i])])

Range(f) == {f[i] : i \in DOMAIN f}

DetectKeep ==
    <<cb, loop_vars, thread_vars, signer_vars, bot_vars, ws_vars, redeem_vars>>

\* the detectors keep no state between calls: one call is followed
NotCalled == det_call.op = "none"

\* detector.detect(&market_id, &token_id, &order_book)
Detect(config, book) ==
    /\ NotCalled
    /\ det_call' = [op |-> "detect", config |-> config, book |-> book,
                    ret |-> detect(config, book)]
    /\ UNCHANGED DetectKeep

\* the scalar and the SIMD detect_batch on one list, and both SIMD kernels on its first four
DetectBatch(config, markets) ==
    /\ NotCalled
    /\ det_call' = [op |-> "detect_batch", config |-> config, markets |-> markets,
                    scalar |-> scalar_detect_batch(config, markets),
                    simd |-> simd_detect_batch(config, markets),
                    lanes_f64 |-> IF Len(markets) >= 4
                                  THEN detect_batch_simd(config, SubSeq(markets, 1, 4))
                                  ELSE Returned(<<>>),
                    lanes_fixed |-> IF Len(markets) >= 4
                                    THEN detect_batch_simd_fixed(config, SubSeq(markets, 1, 4))
                                    ELSE Returned(<<>>)]
    /\ UNCHANGED DetectKeep

-----------------------------------------------------------------------------
(* BinaryArbitrageOpportunity (strategies/binary_arbitrage.rs); f64 prices *)
(* in tenths of a micro-unit, as above                                     *)

\* the f64 1.0
OneDollar == to_f64(SCALE)

\* the f64 prices of the levels of a binary pair: 0.46, 0.50, 0.54
PairPrices == {4600000, 5000000, 5400000}

\* the best bid and the best ask of the book of one outcome
OutcomeBooks ==
    [best_bid : {None} \cup {Some(l) : l \in [price : PairPrices, size : {50, 100}]},
     best_ask : {None} \cup {Some(l) : l \in [price : PairPrices, size : {50, 100}]}]

\* a detector that takes an ask sum of exactly 1.0 for a BUY
BuyArbitrageAtOne(price_sum) == price_sum <= OneDollar

\* if price_sum < 1.0
BuyArbitrage(price_sum) == price_sum < OneDollar

\* if price_sum > 1.0
SellArbitrage(price_sum) == price_sum > OneDollar

\* the fields of a BinaryArbitrageOpportunity that depend on the books
BinaryOpportunity(side, yes_level, no_level, margin) ==
    [side |-> side, yes_price |-> yes_level.price, no_price |-> no_level.price,
     price_sum |-> yes_level.price + no_level.price, profit_margin |-> margin,
     max_size |-> Min(yes_level.size, no_level.size),
     expected_profit |-> margin * Min(yes_level.size, no_level.size)]

\* BinaryArbitrageOpportunity::from_orderbooks
from_orderbooks(yes_orderbook, no_orderbook) ==
    LET yes_ask == yes_orderbook.best_ask
        no_ask == no_orderbook.best_ask
        yes_bid == yes_orderbook.best_bid
        no_bid == no_orderbook.best_bid
    IN  IF yes_ask.some /\ no_ask.some /\ BuyArbitrage(yes_ask.value.price + no_ask.value.price)
        THEN Some(BinaryOpportunity("Buy", yes_ask.value, no_ask.value,
                                    OneDollar - (yes_ask.value.price + no_ask.value.price)))
        ELSE IF yes_bid.some /\ no_bid.some
                   /\ SellArbitrage(yes_bid.value.price + no_bid.value.price)
        THEN Some(BinaryOpportunity("Sell", yes_bid.value, no_bid.value,
                                    (yes_bid.value.price + no_bid.value.price) - OneDollar))
        ELSE None

\* BinaryArbitrageOpportunity::from_orderbooks(.., &yes_orderbook, &no_orderbook, ..)
FromOrderbooks(yes_orderbook, no_orderbook) ==
    /\ NotCalled
    /\ det_call' = [op |-> "from_orderbooks", yes |-> yes_orderbook, no |-> no_orderbook,
                    ret |-> from_orderbooks(yes_orderbook, no_orderbook)]
    /\ UNCHANGED DetectKeep

-----------------------------------------------------------------------------
Init ==
    /\ cb = NewBreaker
    /\ elapsed = 0
    /\ current_nonce = 0
    /\ pc = "idle"
    /\ opp = NoOpp
    /\ resp = NoResp
    /\ cancel_calls = <<>>
    /\ partial_stuck = FALSE
    /\ posts = 0
    /\ last_op = "new"
    /\ arg = 0
    /\ ret = Ok
    /\ pre = [cb |-> NewBreaker, elapsed |-> 0, nonce |-> 0, posts |-> 0, stuck |-> FALSE]
    /\ errors_recorded = 0
    /\ held = [successes |-> 0, external |-> FALSE]
    /\ th = [t \in Threads |-> ThreadIdle]
    /\ calls_left = [t \in Threads |-> CallsPerThread]
    /\ accepted = [p \in ThreadPnl |-> 0]
    /\ opened = [p |-> 0, ok |-> 0]
    /\ wall_clock = 0
    /\ issued = EmptyBag
    /\ signed = EmptyBag
    /\ conflict_calls = 0
    /\ nonce0 = 0
    /\ dry_run = FALSE
    /\ bot_pc = "off"
    /\ bot_opp = NoBotOpp
    /\ positions = <<>>
    /\ bot_call = [op |-> "none"]
    /\ ws_pc = "connecting"
    /\ current_reconnect_interval = initial_reconnect_interval
    /\ idle = 0
    /\ since_pong = 0
    /\ chan = <<>>
    /\ pending = NoMessage
    /\ rx_closed = FALSE
    /\ cache = <<>>
    /\ ws_hist = NewWsHist
    /\ utc_now = 0
    /\ red_call = [op |-> "new"]
    /\ added = <<>>
    /\ payouts = [m \in Markets |-> 0]
    /\ det_call = [op |-> "none"]

Next ==
    \/ CanExecute
    \/ Trip
    \/ Reset
    \/ \E pnl \in PnlInputs : RecordTrade(pnl)
    \/ RecordError
    \/ OpenPosition
    \/ ClosePosition
    \/ ResetDaily
    \/ \E i \in Cooldowns : CheckDailyReset(i)
    \/ \E c \in Cooldowns : AutoReset(c)
    \/ Tick
    \/ \E o \in Opportunities, sign \in SignOutcomes : ExecuteBegin(o, sign)
    \/ \E f \in BatchFailures : BatchError(f)
    \/ \E r \in Responses : BatchResponse(r)
    \/ \E c \in BOOLEAN : CancelResponse(c)

Spec == Init /\ [][Next]_vars

\* execute with a second task on the gate while it awaits the venue
NextExec ==
    \/ \E o \in Opportunities, sign \in SignOutcomes : ExecuteBegin(o, sign)
    \/ \E f \in BatchFailures : BatchError(f)
    \/ \E r \in Responses : BatchResponse(r)
    \/ \E c \in BOOLEAN : CancelResponse(c)
    \/ OtherTaskTrips
    \/ Reset
    \/ ClosePosition

SpecExec == Init /\ [][NextExec]_vars

\* the gate under concurrent open_position calls, after open_position calls of one thread
NextOpen ==
    \/ NotStarted /\ OpenPosition
    \/ \E t \in Threads :
        \/ OpGate(t)
        \/ OpAdd(t)
        \/ CtLoss(t)
        \/ CtPositions(t)
        \/ CtErrors(t)
        \/ OpUndo(t)

SpecOpen == Init /\ [][NextOpen]_vars

\* the gate under concurrent record_trade calls
NextConc ==
    \E t \in Threads :
        \/ \E pnl \in ThreadPnl : RtGate(t, pnl)
        \/ RtUpdate(t)
        \/ RtStore(t)
        \/ RtResetErrors(t)
        \/ CtLoss(t)
        \/ CtPositions(t)
        \/ CtErrors(t)

SpecConc == Init /\ [][NextConc]_vars

\* the sequencer called from one thread
NextNonceSeq ==
    \/ \E n \in 0..MaxNonce : Initialize(n)
    \/ NextNonce
    \/ \E s \in ServerNonces : HandleConflict(s)
    \/ Current

SpecNonce == Init /\ [][NextNonceSeq]_vars

\* the threads that sign orders and realign the sequencer
NextSigners ==
    \/ \E n \in 0..MaxStart : SnInitialize(n)
    \/ ClockTick
    \/ \E t \in Threads :
           \/ SoNonce(t)
           \/ \E ok \in BOOLEAN : SoSign(t, ok)
           \/ \E s \in ThreadServerNonces : HcLoad(t, s)
           \/ HcStore(t)

SpecSigners == Init /\ [][NextSigners]_vars

\* the binary arbitrage bot
NextBot ==
    \/ \E dry \in BOOLEAN : BotNew(dry)
    \/ \E o \in BotOpportunities, sign \in SignOutcomes : ExecuteArbitrage(o, sign)
    \/ \E f \in BatchFailures : BotBatchError(f)
    \/ \E r \in Responses : BotBatchResponse(r)

SpecBot == Init /\ [][NextBot]_vars

\* the ingestor, its peer and the consumer of its channel
NextWs ==
    \/ WsConnectFails
    \/ WsConnected
    \/ \E msg \in FeedMessages, parses \in BOOLEAN : WsText(msg, parses)
    \/ WsSendResumes
    \/ WsSendFails
    \/ WsPong
    \/ WsOtherFrame
    \/ \E why \in {"close_frame", "stream_error", "stream_end"} : WsConnectionLost(why)
    \/ WsPingTimer
    \/ WsTick
    \/ WsBackoffElapsed
    \/ Consume
    \/ ConsumerDrops

SpecWs == Init /\ [][NextWs]_vars

\* the ingestor with its timers: the sleep of the backoff always completes
SpecWsLive == SpecWs /\ WF_vars(WsBackoffElapsed)

\* calls on one RedemptionManager
NextRedeem ==
    \/ \E position \in NewPositions : RmAddPosition(position)
    \/ \E market_id \in Markets : RmMarkRedeemed(market_id)
    \/ \E market_id \in Markets : RmRedeemPosition(market_id)
    \/ RmAutoRedeemAll
    \/ RmClockTick

SpecRedeem == Init /\ [][NextRedeem]_vars

\* calls of the detectors on books and lists of books
NextDetect ==
    \/ \E config \in Configs, book \in Books : Detect(config, book)
    \/ \E config \in Configs, n \in 0..MaxBooks :
          \E markets \in [1..n -> BatchBooks] : DetectBatch(config, markets)
    \/ \E yes_orderbook \in OutcomeBooks, no_orderbook \in OutcomeBooks :
          FromOrderbooks(yes_orderbook, no_orderbook)

SpecDetect == Init /\ [][NextDetect]_vars

-----------------------------------------------------------------------------
(* Properties of execute and of the gate, checked under Spec               *)

\* the last operation was an execute() call that has returned
Executed == last_op = "execute" /\ pc = "idle"

\* the last execute() received a 200 / 201 batch answer
GotResponse == Executed /\ resp.kind = "response"

\* C1: partial-fill rollback failure. When the batch answer has success=true and exactly
\* one order hash and the cancel of that hash fails, execute returns
\* PartialFill{rolled_back=false} with the gate tripped; from then on, until reset or
\* auto_reset clears the gate, the gate stays tripped and every execute call returns the
\* gate refusal (Failed, latency 0) without a batch POST and without taking a nonce.
C1_RollbackFailureHalts ==
    /\ (GotResponse /\ resp.success /\ Len(resp.order_hashes) = 1
            /\ cancel_calls = <<[hash |-> resp.order_hashes[1], outcome |-> "failed"]>>)
        => /\ ret = PartialFill(resp.order_hashes[1], FALSE)
           /\ cb.tripped
           /\ partial_stuck
    /\ partial_stuck => cb.tripped
    /\ (last_op = "execute" /\ pre.stuck)
        => /\ pc = "idle"
           /\ ret = GateRefusal
           /\ posts = pre.posts
           /\ current_nonce = pre.nonce

\* C1 witness: an execute call made after a failed rollback has been refused
C1_Witness ==
    /\ Executed /\ pre.stuck /\ ret = GateRefusal
    /\ pre.cb.consecutive_errors < MaxConsecutiveErrors

\* C2: whenever the batch answer received by execute carries exactly one order hash,
\* execute has invoked cancel_order on that hash when it returns.
C2_SingleHashIsCancelled ==
    (GotResponse /\ Len(resp.order_hashes) = 1)
        => \E i \in 1..Len(cancel_calls) : cancel_calls[i].hash = resp.order_hashes[1]

\* C3: partial-fill rollback success. With success=true, exactly one hash and a cancel
\* that succeeds: cancel_order was called exactly once, with that hash; execute returns
\* PartialFill{rolled_back=true}; open_positions is back at its value before the call;
\* consecutive_errors is one higher; the gate is tripped only if consecutive_errors
\* reached max_consecutive_errors.
C3_RollbackSuccess ==
    (GotResponse /\ resp.success /\ Len(resp.order_hashes) = 1
        /\ Len(cancel_calls) >= 1 /\ cancel_calls[1].outcome = "cancelled")
        => /\ cancel_calls = <<[hash |-> resp.order_hashes[1], outcome |-> "cancelled"]>>
           /\ ret = PartialFill(resp.order_hashes[1], TRUE)
           /\ cb.open_positions = pre.cb.open_positions
           /\ cb.consecutive_errors = pre.cb.consecutive_errors + 1
           /\ cb.tripped => cb.consecutive_errors >= MaxConsecutiveErrors

\* the operations of the gate and of the executor that the claim C4 lets clear the trip flag
C4_StatedClearers == {"reset_daily", "auto_reset"}

\* C4 as stated: once tripped, no operation other than reset_daily or auto_reset sets
\* tripped back to false.
C4_OnlyDailyOrAutoResetClears ==
    (pre.cb.tripped /\ last_op \notin C4_StatedClearers) => cb.tripped

\* C4 as amended: once tripped, no operation other than reset or auto_reset sets tripped
\* back to false; reset_daily, like trip, record_trade, record_error, open_position,
\* close_position, the read-only operations and execute, leaves can_execute() false.
C4_OnlyResetOrAutoResetClears ==
    /\ (pre.cb.tripped /\ last_op \notin {"reset", "auto_reset"}) => cb.tripped
    /\ (pre.cb.tripped /\ last_op = "auto_reset" /\ ~ret.value) => cb.tripped

\* C4 witness: reset_daily ran on a tripped gate, which is still tripped
C4_Witness == last_op = "reset_daily" /\ pre.cb.tripped /\ cb.tripped

\* one of the two open_position calls of an execute() called in state p is refused
ReservationRefused(p) ==
    /\ ~p.tripped
    /\ \/ ~open_position(p).ok
       \/ ~open_position(open_position(p).cb).ok

\* C5: if one of the two reservations of execute is refused, execute returns a failure
\* (Failed, or the propagated error), no batch is submitted and no slot stays reserved.
C5_RefusedReservationReleases ==
    (Executed /\ ReservationRefused(pre.cb))
        => /\ ret.kind \in {"Failed", "Err"}
           /\ posts = pre.posts
           /\ cb.open_positions = pre.cb.open_positions

\* C6: execute called on a tripped gate returns Failed with latency 0 and changes
\* nothing: no batch POST, no nonce taken, the gate record as it was.
C6_TrippedExecuteHasNoEffect ==
    (last_op = "execute" /\ pre.cb.tripped)
        => /\ pc = "idle"
           /\ ret.kind = "Failed" /\ ~ret.latency_measured
           /\ posts = pre.posts
           /\ current_nonce = pre.nonce
           /\ resp = NoResp /\ cancel_calls = <<>>
           /\ cb = pre.cb

\* C6 witness: execute was called on a tripped gate that holds reserved slots and a loss
C6_Witness ==
    /\ last_op = "execute" /\ pre.cb.tripped
    /\ pre.cb.open_positions > 0 /\ pre.cb.daily_loss_cents > 0 /\ pre.nonce > 0

\* C7: close_position decrements open_positions saturating at 0: at 0 it stays 0.
C7_CloseSaturatesAtZero ==
    last_op = "close_position"
        => cb.open_positions = (IF pre.cb.open_positions = 0 THEN 0 ELSE pre.cb.open_positions - 1)

\* C8: open_position at open_positions = max_open_positions is refused, trips the gate and
\* leaves open_positions unchanged; below the limit, on an untripped gate with neither the
\* loss limit nor the error limit reached, it returns Ok and raises open_positions by one.
C8_OpenPositionAtAndBelowLimit ==
    last_op = "open_position" =>
        /\ pre.cb.open_positions = MaxOpenPositions
            => /\ ret.kind = "Err"
               /\ cb.tripped
               /\ cb.open_positions = pre.cb.open_positions
        /\ (/\ pre.cb.open_positions >= 0 /\ pre.cb.open_positions < MaxOpenPositions
            /\ ~pre.cb.tripped
            /\ pre.cb.daily_loss_cents * MicrosPerCent < MaxDailyLoss
            /\ pre.cb.consecutive_errors < MaxConsecutiveErrors)
            => /\ ret = Ok
               /\ cb = [pre.cb EXCEPT !.open_positions = pre.cb.open_positions + 1]

\* C8 witness: open_position was called at the limit on a gate that was not tripped
C8_Witness ==
    /\ last_op = "open_position"
    /\ pre.cb.open_positions = MaxOpenPositions
    /\ ~pre.cb.tripped
    /\ cb.tripped

\* C10 as stated: a record_trade with a profit larger than the accumulated loss leaves
\* the daily loss at 0, a profit p not larger than it lowers it by exactly p.
C10_ProfitLowersLossByP ==
    (last_op = "record_trade" /\ arg >= 0)
        => IF arg > pre.cb.daily_loss_cents * MicrosPerCent
           THEN cb.daily_loss_cents = 0
           ELSE cb.daily_loss_cents * MicrosPerCent = pre.cb.daily_loss_cents * MicrosPerCent - arg

\* C10 as amended: a record_trade with profit p that the gate accepts (it is not tripped)
\* lowers the daily loss by the whole cents of p, stopping at 0; so a profit larger than
\* the loss leaves 0 and no profit raises it. On a tripped gate record_trade is refused
\* and the daily loss stays as it was.
C10_ProfitLowersLossClamped ==
    (last_op = "record_trade" /\ arg >= 0)
        => LET c == arg \div MicrosPerCent
               l == pre.cb.daily_loss_cents
           IN  /\ cb.daily_loss_cents >= 0
               /\ cb.daily_loss_cents <= l
               /\ ~pre.cb.tripped => /\ ret = Ok
                                     /\ cb.daily_loss_cents = (IF c >= l THEN 0 ELSE l - c)
                                     /\ arg > l * MicrosPerCent => cb.daily_loss_cents = 0
               /\ pre.cb.tripped => ret.kind = "Err" /\ cb = pre.cb

\* C10 witness: an accepted profit larger than a positive accumulated loss
C10_Witness ==
    /\ last_op = "record_trade" /\ ret = Ok
    /\ pre.cb.daily_loss_cents > 0
    /\ arg > pre.cb.daily_loss_cents * MicrosPerCent
    /\ cb.daily_loss_cents = 0

\* C11: after a record_trade that brings the accumulated daily loss to max_daily_loss or
\* beyond, the gate is tripped when the call returns; a record_trade on an untripped gate
\* that leaves the daily loss below max_daily_loss, with open_positions within its limit
\* (record_trade itself clears consecutive_errors), does not trip it.
C11_RecordTradeTripsAtLossLimit ==
    last_op = "record_trade" =>
        /\ (cb.daily_loss_cents * MicrosPerCent >= MaxDailyLoss) => cb.tripped
        /\ (/\ ~pre.cb.tripped
            /\ cb.daily_loss_cents * MicrosPerCent < MaxDailyLoss
            /\ pre.cb.open_positions >= 0 /\ pre.cb.open_positions <= MaxOpenPositions)
            => ~cb.tripped

\* C11 witness: a loss recorded on an untripped gate below the limit reached the limit
C11_Witness ==
    /\ last_op = "record_trade" /\ arg < 0 /\ ret = Ok
    /\ pre.cb.daily_loss_cents > 0
    /\ pre.cb.daily_loss_cents * MicrosPerCent < MaxDailyLoss
    /\ cb.daily_loss_cents * MicrosPerCent >= MaxDailyLoss
    /\ cb.daily_loss_cents * MicrosPerCent < MaxDailyLoss + MicrosPerCent
    /\ cb.tripped

\* C12: record_error raises consecutive_errors by one; when the count has reached
\* max_consecutive_errors the gate is tripped, and below it, on an untripped gate with the
\* daily loss below its limit and open_positions within theirs, the gate stays untripped.
C12_RecordErrorTripsAtLimit ==
    last_op = "record_error" =>
        /\ cb.consecutive_errors = pre.cb.consecutive_errors + 1
        /\ cb.consecutive_errors >= MaxConsecutiveErrors => cb.tripped
        /\ (/\ cb.consecutive_errors < MaxConsecutiveErrors
            /\ ~pre.cb.tripped
            /\ pre.cb.daily_loss_cents * MicrosPerCent < MaxDailyLoss
            /\ pre.cb.open_positions >= 0 /\ pre.cb.open_positions <= MaxOpenPositions)
            => ~cb.tripped
        /\ cb = [pre.cb EXCEPT !.consecutive_errors = cb.consecutive_errors, !.tripped = cb.tripped]

\* C12 witness: the max_consecutive_errors-th error in a row tripped an untripped gate
C12_Witness ==
    /\ last_op = "record_error"
    /\ ~pre.cb.tripped
    /\ pre.cb.consecutive_errors = MaxConsecutiveErrors - 1
    /\ cb.consecutive_errors = MaxConsecutiveErrors
    /\ cb.tripped

\* C13: auto_reset(cooldown) returns true and clears tripped if and only if the gate is
\* tripped, last_reset.elapsed() >= cooldown and the daily loss is below 90% of
\* max_daily_loss; in every other case it returns false and changes nothing.
C13_AutoResetIffConditions ==
    last_op = "auto_reset" =>
        LET due == /\ pre.cb.tripped
                   /\ pre.elapsed >= arg
                   /\ pre.cb.daily_loss_cents * MicrosPerCent * 10 < MaxDailyLoss * 9
        IN  /\ ret.value <=> due
            /\ due => cb = [pre.cb EXCEPT !.tripped = FALSE]
            /\ ~due => cb = pre.cb
            /\ elapsed = pre.elapsed

\* C13 witness: auto_reset cleared a tripped gate after a cooldown that is not zero
C13_Witness ==
    /\ last_op = "auto_reset" /\ ret.value
    /\ arg > 0
    /\ pre.cb.tripped /\ ~cb.tripped
    /\ pre.cb.daily_loss_cents > 0

\* C14: reset_daily sets daily_loss_cents and consecutive_errors to 0 and stamps
\* last_reset, and leaves tripped and open_positions as they were.
C14_ResetDailyFrame ==
    last_op = "reset_daily" =>
        /\ cb.daily_loss_cents = 0
        /\ cb.consecutive_errors = 0
        /\ elapsed = 0
        /\ cb.tripped = pre.cb.tripped
        /\ cb.open_positions = pre.cb.open_positions

\* C14 witness: reset_daily ran on a tripped gate with a loss, errors, reserved slots and
\* an old last_reset
C14_Witness ==
    /\ last_op = "reset_daily"
    /\ pre.cb.tripped /\ cb.tripped
    /\ pre.cb.daily_loss_cents > 0
    /\ pre.cb.consecutive_errors > 0
    /\ pre.cb.open_positions > 0 /\ cb.open_positions = pre.cb.open_positions
    /\ pre.elapsed > 0

\* C18: when the venue rejects the submission of execute with a nonce conflict reporting
\* the expected nonce n, the sequencer is realigned as by handle_conflict(n) (it ends
\* above n), the batch is submitted once more (two POSTs in all), and consecutive_errors
\* does not count the conflict.
C18_NonceConflictRetried ==
    (Executed /\ resp.kind = "error" /\ resp # NoBatch /\ resp.cause = "nonce_conflict")
        => /\ current_nonce > resp.expected_nonce
           /\ posts = pre.posts + 2
           /\ cb.consecutive_errors = pre.cb.consecutive_errors

-----------------------------------------------------------------------------
(* Properties of the gate under concurrent calls, checked under SpecConc   *)

\* every thread has made its calls and is outside the gate
AllReturned == \A t \in Threads : th[t].pc = "idle" /\ calls_left[t] = 0

\* the daily losses that applying the calls of bag b one after another, in some order,
\* to the daily loss l can end with
RECURSIVE SerialOutcomes(_, _)
SerialOutcomes(b, l) ==
    LET left == {p \in DOMAIN b : b[p] > 0}
    IN  IF left = {}
        THEN {l}
        ELSE UNION {SerialOutcomes([b EXCEPT ![p] = @ - 1], UpdateDailyLoss(l, p)) : p \in left}

\* C9: record_trade updates daily_loss_cents atomically: once concurrent record_trade
\* calls on an untripped gate have all returned, the daily loss is one that the same
\* calls made one after another, in some order, end with.
C9_ConcurrentTradesSerialize ==
    (AllReturned /\ ~cb.tripped)
        => cb.daily_loss_cents \in SerialOutcomes(accepted, 0)

-----------------------------------------------------------------------------
(* Properties of the sequencer, checked under SpecNonce and SpecSigners    *)

Max(a, b) == IF a >= b THEN a ELSE b

\* C15: no two successfully signed orders share the same (maker, nonce, salt), under any
\* interleaving of concurrent build_signed_order and handle_conflict calls.
C15_SignedTriplesUnique ==
    \A o \in BagToSet(signed) : CopiesIn(o, signed) = 1

\* C16: threads that make only next_nonce calls on a sequencer initialised to n0 obtain
\* distinct values that cover [n0, current); once N threads have made k calls each they
\* hold N*k values and current() is n0 + N*k.
C16_ConcurrentNoncesCover ==
    conflict_calls = 0 =>
        /\ \A n \in BagToSet(issued) : CopiesIn(n, issued) = 1
        /\ BagToSet(issued) = nonce0 .. (current_nonce - 1)
        /\ AllReturned =>
              /\ BagCardinality(issued) = Cardinality(Threads) * CallsPerThread
              /\ current_nonce = nonce0 + Cardinality(Threads) * CallsPerThread

\* C16 witness: every thread has made its next_nonce calls on a sequencer that did not
\* start at 0
C16_Witness ==
    /\ AllReturned /\ conflict_calls = 0
    /\ nonce0 > 0
    /\ BagCardinality(issued) = Cardinality(Threads) * CallsPerThread

\* C17: handle_conflict(s) stores s + 1 when s >= the current local nonce and changes
\* nothing when s is below it, so the next next_nonce() returns max(current, s + 1).
C17_HandleConflictRealigns ==
    /\ last_op = "handle_conflict"
        => current_nonce = (IF arg >= pre.nonce THEN arg + 1 ELSE pre.nonce)
    /\ (last_op = "next_nonce" /\ arg.op = "handle_conflict")
        => /\ ret = U64(Max(arg.nonce, arg.arg + 1))
           /\ current_nonce = ret.value + 1

\* C17 witness: next_nonce after a handle_conflict whose server nonce equalled the local one
C17_Witness ==
    /\ last_op = "next_nonce" /\ arg.op = "handle_conflict"
    /\ arg.arg = arg.nonce /\ arg.nonce > 0
    /\ ret.value = arg.arg + 1

-----------------------------------------------------------------------------
(* Properties of the binary arbitrage bot, checked under SpecBot           *)

\* C19: in the bot loop every order submission is preceded by a consultation of the risk
\* gate and goes through the paired executor: a call that reached create_batch_orders
\* consulted the gate first and submitted through ArbitrageExecutor::execute.
C19_SubmissionsPassTheGate ==
    (bot_call.op = "execute_arbitrage" /\ bot_call.batch_calls > 0)
        => /\ bot_call.gate_consulted
           /\ bot_call.via = "ArbitrageExecutor::execute"

\* C20: in dry-run mode execute_arbitrage returns without calling create_batch_orders,
\* without taking a nonce and without adding a redeemable position.
C20_DryRunNeverSubmits ==
    (dry_run /\ bot_call.op = "execute_arbitrage")
        => /\ bot_pc = "scan"
           /\ bot_call.ret = Ok
           /\ bot_call.batch_calls = 0
           /\ posts = bot_call.pre.posts /\ posts = 0
           /\ current_nonce = bot_call.pre.nonce /\ current_nonce = 0
           /\ positions = bot_call.pre.positions /\ DOMAIN positions = {}

\* C20 witness: execute_arbitrage has returned in dry-run mode
C20_Witness ==
    /\ dry_run
    /\ bot_call.op = "execute_arbitrage" /\ bot_call.opp \in BotOpportunities
    /\ bot_call.ret = Ok

-----------------------------------------------------------------------------
(* The WebSocket ingestor and the consumer of its channel, under SpecWs    *)

\* C21: when the channel to the consumer is full the newly parsed message is dropped and
\* counted, so the ingestor never waits for the consumer
C21_IngestorNeverBlocks == ws_pc # "send_blocked"

\* C22: the liveness probe declares a connection dead only when a ping it sent has gone
\* unanswered for more than ping_timeout
C22_DeadOnlyAfterUnansweredPing ==
    (ws_pc = "backoff" /\ ws_hist.exit = "ping_timeout")
        => (ws_hist.ping_outstanding /\ ws_hist.since_ping > ping_timeout)

\* C23 as stated: the wait after the k-th failed connection attempt in a row is
\* min(2^(k-1), 60) seconds
C23_WaitAfterKthFailedAttempt ==
    (ws_pc = "backoff" /\ ws_hist.exit = "connect_failed")
        => ws_hist.last_wait = Min(2 ^ (ws_hist.fails - 1), max_reconnect_interval)

\* C23 amended: the wait after the k-th return of connect_and_listen since the last
\* successful handshake (the loss of that connection being the first) is min(2^(k-1), 60)
\* seconds; the interval never exceeds 60 s and is 1 s on every established connection
C23_WaitAfterKthReturn ==
    /\ ws_pc = "backoff"
        => ws_hist.last_wait = Min(2 ^ (ws_hist.returns - 1), max_reconnect_interval)
    /\ current_reconnect_interval >= initial_reconnect_interval
    /\ current_reconnect_interval <= max_reconnect_interval
    /\ ws_pc \in {"listening", "send_blocked"}
        => current_reconnect_interval = initial_reconnect_interval

\* the cap is reached: the seventh failed attempt after a lost connection waits 60 s
C23_Witness ==
    /\ ws_pc = "backoff"
    /\ ws_hist.exit = "connect_failed"
    /\ ws_hist.fails = 7
    /\ ws_hist.returns = 8
    /\ ws_hist.last_wait = max_reconnect_interval

\* C24: on every established connection exactly one subscription message has been sent
\* before any incoming message is handled
C24_OneSubscriptionPerConnect ==
    ws_pc \in {"listening", "send_blocked"} => ws_hist.subscription_frames = 1

\* C25: the timestamp of the cached book of a token never decreases
C25_CacheTimestampsNeverDecrease ==
    [][\A t \in DOMAIN cache : cache'[t].timestamp >= cache[t].timestamp]_vars

-----------------------------------------------------------------------------
(* The redemption tracker, under SpecRedeem                                *)

\* C26: a market that redeem_position paid out for stays redeemed, and is paid at most once
C26_RedeemedStaysRedeemed ==
    \A m \in Markets :
        /\ payouts[m] <= 1
        /\ payouts[m] >= 1 => (m \in DOMAIN positions /\ positions[m].redeemed)

\* C27: after n add_position calls on a new manager both counts are n and the redeemable
\* positions are the added ones whose expiry has passed
C27_AddsAreCounted ==
    (OnlyAdds /\ added # <<>>)
        => /\ position_count(positions) = Len(added)
           /\ unredeemed_count(positions) = Len(added)
           /\ get_redeemable_positions(positions, utc_now)
                  = {added[i] : i \in {k \in 1..Len(added) :
                                          added[k].expiry.some /\ utc_now >= added[k].expiry.value}}

RECURSIVE ProfitOver(_, _)
ProfitOver(ps, ms) ==
    IF ms = {} THEN 0
    ELSE LET m == CHOOSE x \in ms : TRUE
         IN  (ps[m].size - ps[m].cost) + ProfitOver(ps, ms \ {m})

\* the entries past expiry and not redeemed
PastExpiryUnredeemed(ps, now) ==
    {m \in DOMAIN ps : ~ps[m].redeemed /\ ps[m].expiry.some /\ ps[m].expiry.value <= now}

\* C28: auto_redeem_all returns the sum of size - cost over the entries past expiry and not
\* redeemed, marks exactly those redeemed, and a repeated call returns 0 and changes nothing
C28_AutoRedeemAllSweeps ==
    red_call.op = "auto_redeem_all"
        => LET before == red_call.pre
               swept == PastExpiryUnredeemed(before, red_call.now)
               again == auto_redeem_all(positions, red_call.now)
           IN  /\ red_call.ret = ProfitOver(before, swept)
               /\ DOMAIN positions = DOMAIN before
               /\ \A m \in DOMAIN before :
                      positions[m] = IF m \in swept THEN [before[m] EXCEPT !.redeemed = TRUE]
                                                   ELSE before[m]
               /\ again.ret = 0
               /\ again.positions = positions

\* a sweep that redeemed one entry and left an unexpired or expiry-less one alone
C28_Witness ==
    /\ red_call.op = "auto_redeem_all"
    /\ red_call.ret > 0
    /\ \E m \in DOMAIN positions : ~positions[m].redeemed /\ ~positions[m].expiry.some
    /\ \E m \in DOMAIN positions : positions[m].redeemed /\ ~red_call.pre[m].redeemed

-----------------------------------------------------------------------------
(* The detectors, under SpecDetect                                         *)

\* C29: on every list of books the scalar detector and the SIMD batch detector return the
\* same opportunities, and the fixed-point SIMD kernel returns lane by lane what the f64
\* kernel returns
C29_DetectorsAgree ==
    det_call.op = "detect_batch"
        => /\ ~IsPanic(det_call.scalar)
           /\ Range(det_call.scalar.items) = Range(det_call.simd.items)
           /\ det_call.lanes_fixed = det_call.lanes_f64

\* the conditions of an opportunity, in micro-units; the margin (bid - ask) / ask exists
\* for a positive ask only
OpportunityConditions(config, book) ==
    /\ book.best_bid.some
    /\ book.best_ask.some
    /\ Min(book.best_bid.value.size, book.best_ask.value.size) >= config.min_size
    /\ LET bid == from_f64(book.best_bid.value.price)
           ask == from_f64(book.best_ask.value.price)
       IN  /\ bid > ask
           /\ bid - ask <= from_f64(config.max_spread)
           /\ ask > 0
           /\ ScaledQuot((bid - ask) \div ask, (bid - ask) % ask, ask, 6)
                  >= from_f64(config.min_profit_margin)

BuyCandidate(yes, no) ==
    /\ yes.best_ask.some
    /\ no.best_ask.some
    /\ yes.best_ask.value.price + no.best_ask.value.price < OneDollar

\* both best bids exist and sum to more than 1.0
SellCandidate(yes, no) ==
    /\ yes.best_bid.some
    /\ no.best_bid.some
    /\ yes.best_bid.value.price + no.best_bid.value.price > OneDollar

\* C31: from_orderbooks returns a BUY priced from the best asks whenever a BUY candidate
\* exists, a SELL priced from the best bids exactly when no BUY candidate but a SELL
\* candidate exists, and none when the ask sum is at least 1 and the bid sum at most 1
C31_BuySearchedFirst ==
    det_call.op = "from_orderbooks"
        => LET yes == det_call.yes
               no == det_call.no
               r == det_call.ret
           IN  /\ BuyCandidate(yes, no)
                     => /\ r.some
                        /\ r.value.side = "Buy"
                        /\ r.value.yes_price = yes.best_ask.value.price
                        /\ r.value.no_price = no.best_ask.value.price
               /\ (r.some /\ r.value.side = "Sell")
                     <=> (~BuyCandidate(yes, no) /\ SellCandidate(yes, no))
               /\ (r.some /\ r.value.side = "Sell")
                     => /\ r.value.yes_price = yes.best_bid.value.price
                        /\ r.value.no_price = no.best_bid.value.price
               /\ (~BuyCandidate(yes, no) /\ ~SellCandidate(yes, no)) => r = None

\* ask sum 0.96 and bid sum 1.08 at once: the BUY is returned
C31_Witness ==
    /\ det_call.op = "from_orderbooks"
    /\ BuyCandidate(det_call.yes, det_call.no)
    /\ SellCandidate(det_call.yes, det_call.no)
    /\ det_call.ret.some
    /\ det_call.ret.value.side = "Buy"

\* C40: detect returns none or an opportunity on every book with prices in [0, 1] and
\* never faults
C40_DetectNeverFaults == det_call.op = "detect" => ~IsPanic(det_call.ret)

\* the last execute() reserved both slots and returned something other than Success
FailedAfterReservation ==
    /\ Executed
    /\ \/ ret.kind = "PartialFill"
       \/ ret.kind = "Failed" /\ ret.latency_measured

\* C32: every outcome of execute other than Success that occurs after the two slots were
\* reserved (request error, answer without success or without a hash, partial fill with the
\* rollback succeeded or failed) gives both slots back and records exactly one error
C32_FailureReleasesBothSlots ==
    FailedAfterReservation
        => /\ cb.open_positions = pre.cb.open_positions
           /\ cb.consecutive_errors = pre.cb.consecutive_errors + 1

\* a partial fill whose rollback failed, on a gate that held one slot before the call
C32_Witness ==
    /\ FailedAfterReservation
    /\ ret.kind = "PartialFill" /\ ~ret.rolled_back
    /\ pre.cb.open_positions = 1

\* C33: when execute returns Success{pnl}, the daily loss reflects that pnl (raised by a
\* loss, lowered towards 0 by a profit) and consecutive_errors is 0, also when another task
\* tripped the gate between the submission and the recording
C33_SuccessIsRecorded ==
    (Executed /\ ret.kind = "Success")
        => /\ cb.daily_loss_cents = UpdateDailyLoss(pre.cb.daily_loss_cents, ret.pnl)
           /\ cb.consecutive_errors = 0

\* C34: consecutive_errors equals the number of record_error calls made since the most
\* recent accepted record_trade or reset_daily, or since creation; an accepted
\* record_trade, profit or loss, sets it to 0
C34_ErrorsCountedSinceLastTrade ==
    /\ cb.consecutive_errors = errors_recorded
    /\ (last_op = "record_trade" /\ ret = Ok) => cb.consecutive_errors = 0

\* an accepted losing trade on a gate that had counted an error
C34_Witness ==
    /\ last_op = "record_trade" /\ ret = Ok /\ arg < 0
    /\ pre.cb.consecutive_errors > 0
    /\ cb.consecutive_errors = 0

\* the daily loss and the error count are below their limits
WithinLossAndErrors(g) ==
    /\ g.daily_loss_cents * MicrosPerCent < MaxDailyLoss
    /\ g.consecutive_errors < MaxConsecutiveErrors

\* C36 as stated: whenever no gate operation is in progress and the gate is not tripped,
\* no limit is reached: daily loss < max_daily_loss, consecutive_errors <
\* max_consecutive_errors and open_positions <= max_open_positions
C36_NoLimitReachedWhileOpen ==
    (pc = "idle" /\ ~cb.tripped)
        => /\ WithinLossAndErrors(cb)
           /\ ~UGt(cb.open_positions, MaxOpenPositions)

\* C36 as amended: whenever no gate operation is in progress, the gate is not tripped, the
\* last operation was neither reset nor auto_reset and the gate was tripped or within its
\* loss and error limits before it, daily loss < max_daily_loss and consecutive_errors <
\* max_consecutive_errors
C36_LimitsHoldUnlessCleared ==
    (/\ pc = "idle"
     /\ ~cb.tripped
     /\ last_op \notin {"reset", "auto_reset"}
     /\ (pre.cb.tripped \/ WithinLossAndErrors(pre.cb)))
        => WithinLossAndErrors(cb)

\* a record_error one short of the limit, and a profit after a loss, leave the gate open
C36_Witness ==
    /\ pc = "idle" /\ ~cb.tripped
    /\ \/ last_op = "record_error" /\ cb.consecutive_errors = MaxConsecutiveErrors - 1
       \/ last_op = "record_trade" /\ arg > 0 /\ cb.daily_loss_cents > 0

\* every thread is outside its calls
NoCallInProgress == \A t \in Threads : th[t] = ThreadIdle

\* C37: of the concurrent open_position calls that start at open_positions = p, at most
\* max_open_positions - p return Ok, and once all calls have returned open_positions is
\* p plus the number of calls that returned Ok
C37_ConcurrentOpensWithinLimit ==
    /\ opened.ok <= MaxOpenPositions - opened.p
    /\ (NoCallInProgress /\ ~NotStarted) => cb.open_positions = opened.p + opened.ok

\* all calls have returned, one of them refused at the limit after the others were let in
C37_Witness ==
    /\ NoCallInProgress
    /\ \A t \in Threads : calls_left[t] = 0
    /\ opened.p > 0
    /\ opened.ok = MaxOpenPositions - opened.p
    /\ cb.tripped

\* C35: under any interleaving of concurrent next_nonce and handle_conflict calls the
\* sequencer value never decreases and next_nonce never returns the same value twice
\* (the initialize call made before the threads start is left out)
C35_SequencerMonotoneAndUnique ==
    /\ [](\A n \in BagToSet(issued) : CopiesIn(n, issued) = 1)
    /\ [][NotStarted \/ current_nonce' >= current_nonce]_vars

\* C38: the executor never releases the slots of a successful execution: each Success
\* leaves open_positions 2 higher than before the call, so while nothing outside execute
\* releases a slot at most floor(max_open_positions / 2) executions return Success, and
\* the execute attempt after them is refused by open_position and trips the gate
C38_SuccessKeepsItsSlots ==
    /\ (Executed /\ ret.kind = "Success")
            => cb.open_positions = pre.cb.open_positions + 2
    /\ ~held.external => held.successes <= MaxOpenPositions \div 2
    /\ (/\ last_op = "execute"
        /\ ~held.external
        /\ ~pre.cb.tripped
        /\ pre.cb.open_positions = 2 * (MaxOpenPositions \div 2))
            => /\ pc = "idle"
               /\ ret = Err("Position limit would be exceeded")
               /\ cb.tripped

\* the execute after the last possible Success: refused by open_position, gate tripped
C38_Witness ==
    /\ last_op = "execute"
    /\ ~held.external
    /\ held.successes = MaxOpenPositions \div 2
    /\ ~pre.cb.tripped
    /\ ret.kind = "Err"
    /\ cb.tripped

\* C39: start never returns: whenever connect_and_listen has returned (failed connect,
\* stream error, close frame, end of the stream, ping timeout, failed send to the channel)
\* the manager eventually, after the sleep of the backoff, attempts a new connection
C39_AlwaysReconnects ==
    /\ [](ws_pc \in {"connecting", "listening", "send_blocked", "backoff"})
    /\ (ws_pc = "backoff") ~> (ws_pc = "connecting")

\* a new connection attempt after a send to the channel failed
C39_Witness ==
    /\ ws_pc = "connecting"
    /\ ws_hist.exit = "send_failed"
    /\ ws_hist.returns > 0

====
